---- MODULE Spec2Model ----
(***************************************************************************)
(* Model of auto-docs-action.                                              *)
(*                                                                         *)
(* Part 1: the AST validator (src/auto_docs_action/ast_validator.py).      *)
(* A source text is modelled by its statement structure (what the Python   *)
(* grammar sees); ast_parse turns it into a tree with line numbers or      *)
(* raises SyntaxError; validate_changes is translated statement by         *)
(* statement, including its exception handlers.                            *)
(***************************************************************************)
EXTENDS Integers, Sequences, FiniteSets, TLC

(***************************************************************************)
(* Optional values: None is the empty tuple, a present value x is <<x>>.   *)
(***************************************************************************)
None == <<>>
Some(x) == <<x>>

(***************************************************************************)
(* Source text.  Every statement is a record with the same fields; fields  *)
(* a statement kind does not have are empty.                               *)
(***************************************************************************)
NoValue == [type |-> "None", kind |-> "None", value |-> ""]

Stmt(type, name, args, returns, decorator_list, bases, body, value) ==
    [type |-> type, name |-> name, args |-> args, returns |-> returns,
     decorator_list |-> decorator_list, bases |-> bases, body |-> body,
     value |-> value]

\* an expression statement holding a string literal:  "text"
StrExpr(s) ==
    Stmt("Expr", "", <<>>, "", <<>>, <<>>, <<>>,
         [type |-> "Constant", kind |-> "str", value |-> s])

\* an expression statement holding a non-string constant:  42
NumExpr(digits) ==
    Stmt("Expr", "", <<>>, "", <<>>, <<>>, <<>>,
         [type |-> "Constant", kind |-> "int", value |-> digits])

\* an expression statement holding an f-string:  f"text"
FStrExpr(s) ==
    Stmt("Expr", "", <<>>, "", <<>>, <<>>, <<>>,
         [type |-> "JoinedStr", kind |-> "str", value |-> s])

\* a simple statement (Import, Assign, Return, Pass)
Simple(type, what) == Stmt(type, what, <<>>, "", <<>>, <<>>, <<>>, NoValue)

\* def name(args) -> returns:  /  async def ...
Def(type, name, args, returns, decorator_list, body) ==
    Stmt(type, name, args, returns, decorator_list, <<>>, body, NoValue)

\* class name(bases):
Class(name, bases, decorator_list, body) ==
    Stmt("ClassDef", name, <<>>, "", decorator_list, bases, body, NoValue)

\* if / for / while / try / with / match-case block
Block(type, body) == Stmt(type, "", <<>>, "", <<>>, <<>>, body, NoValue)

\* a whole file
Module(body) == Stmt("Module", "", <<>>, "", <<>>, <<>>, body, NoValue)

\* a line the tokenizer or grammar rejects, e.g.  def broken(:
BadLine == Simple("ERRORTOKEN", "def broken(:")

ScopeTypes == {"Module", "FunctionDef", "AsyncFunctionDef", "ClassDef"}
FunctionTypes == {"FunctionDef", "AsyncFunctionDef"}
BlockTypes == {"If", "For", "While", "Try", "With", "match_case"}
CompoundTypes == ScopeTypes \cup BlockTypes

(***************************************************************************)
(* ast.parse.  The grammar rejects a file with a bad line and a compound   *)
(* statement with an empty body (a module may be empty).  A parsed node    *)
(* carries the line it starts on; decorators take one line each and the    *)
(* node's line is the line of its def/class keyword.                       *)
(***************************************************************************)
RECURSIVE LineCount(_)
LineCount(stmt) ==
    LET RECURSIVE Sum(_)
        Sum(body) == IF body = <<>> THEN 0
                     ELSE LineCount(Head(body)) + Sum(Tail(body))
    IN  Len(stmt.decorator_list) + 1 + Sum(stmt.body)

RECURSIVE WellFormedBody(_)
WellFormedBody(body) ==
    \A i \in 1..Len(body) :
        /\ body[i].type # "ERRORTOKEN"
        /\ body[i].type \in CompoundTypes =>
              /\ body[i].type # "Module"
              /\ body[i].body # <<>>
              /\ WellFormedBody(body[i].body)

WellFormed(text) == text.type = "Module" /\ WellFormedBody(text.body)

ASTNode(stmt, lineno, body) ==
    [type |-> stmt.type, name |-> stmt.name, args |-> stmt.args,
     returns |-> stmt.returns, decorator_list |-> stmt.decorator_list,
     bases |-> stmt.bases, body |-> body, value |-> stmt.value,
     lineno |-> lineno]

RECURSIVE ParseBody(_, _)
ParseBody(body, line) ==
    IF body = <<>> THEN <<>>
    ELSE LET s == Head(body)
             l == line + Len(s.decorator_list)
         IN  <<ASTNode(s, l, ParseBody(s.body, l + 1))>>
                 \o ParseBody(Tail(body), line + LineCount(s))

\* returns [exc, msg, tree]: exc = "" when the call returns normally
ast_parse(text) ==
    IF WellFormed(text)
    THEN [exc |-> "", msg |-> "", tree |-> ASTNode(text, 0, ParseBody(text.body, 1))]
    ELSE [exc |-> "SyntaxError", msg |-> "invalid syntax", tree |-> ASTNode(Module(<<>>), 0, <<>>)]

(***************************************************************************)
(* ast.dump with its default include_attributes=False: the node type and   *)
(* every field, in order, without line numbers.  The result is a flat      *)
(* sequence of tokens.                                                     *)
(***************************************************************************)
\* ast.dump(tree, include_attributes=True): line numbers are part of the dump
ast_dump_fields_with_attributes(node) ==
    <<node.type, "(", "name=", node.name, "args=[">> \o node.args
        \o <<"]", "returns=", node.returns, "decorator_list=[">> \o node.decorator_list
        \o <<"]", "bases=[">> \o node.bases
        \o <<"]", "value=", node.value.type, node.value.kind, node.value.value,
             "lineno=", ToString(node.lineno)>>

\* a dump that leaves the decorators out
ast_dump_fields_without_decorators(node) ==
    <<node.type, "(", "name=", node.name, "args=[">> \o node.args
        \o <<"]", "returns=", node.returns, "bases=[">> \o node.bases
        \o <<"]", "value=", node.value.type, node.value.kind, node.value.value>>

\* a dump that leaves the names out
ast_dump_fields_without_name(node) ==
    <<node.type, "(", "args=[">> \o node.args
        \o <<"]", "returns=", node.returns, "decorator_list=[">> \o node.decorator_list
        \o <<"]", "bases=[">> \o node.bases
        \o <<"]", "value=", node.value.type, node.value.kind, node.value.value>>

\* the fields of one node other than its body
ast_dump_fields(node) ==
    <<node.type, "(", "name=", node.name, "args=[">> \o node.args
        \o <<"]", "returns=", node.returns, "decorator_list=[">> \o node.decorator_list
        \o <<"]", "bases=[">> \o node.bases
        \o <<"]", "value=", node.value.type, node.value.kind, node.value.value>>

RECURSIVE ast_dump(_)
ast_dump(node) ==
    LET RECURSIVE DumpList(_)
        DumpList(body) == IF body = <<>> THEN <<>>
                          ELSE ast_dump(Head(body)) \o <<",">> \o DumpList(Tail(body))
    IN  ast_dump_fields(node) \o <<"body=[">> \o DumpList(node.body) \o <<"]", ")">>

(***************************************************************************)
(* ast_validator.py                                                        *)
(***************************************************************************)
\* isinstance(stmt, ast.Expr) and isinstance(stmt.value, ast.Constant)
\* and isinstance(stmt.value.value, str)
IsStringLiteralStmt(stmt) ==
    /\ stmt.type = "Expr"
    /\ stmt.value.type = "Constant"
    /\ stmt.value.kind = "str"

\* a stripper that removes every leading string literal of a scope, not only
\* the first
RECURSIVE _remove_docstrings_recursive_all_leading(_)
_remove_docstrings_recursive_all_leading(node) ==
    LET RECURSIVE Drop(_)
        Drop(stmts) == IF stmts # <<>> /\ IsStringLiteralStmt(stmts[1])
                       THEN Drop(Tail(stmts)) ELSE stmts
        body == IF node.type \in ScopeTypes THEN Drop(node.body) ELSE node.body
    IN  [node EXCEPT !.body =
            [i \in 1..Len(body) |-> _remove_docstrings_recursive_all_leading(body[i])]]

\* a stripper that only asks whether the node has a body
RECURSIVE _remove_docstrings_recursive_any_body(_)
_remove_docstrings_recursive_any_body(node) ==
    LET body == IF node.body # <<>> /\ IsStringLiteralStmt(node.body[1])
                THEN Tail(node.body)
                ELSE node.body
    IN  [node EXCEPT !.body =
            [i \in 1..Len(body) |-> _remove_docstrings_recursive_any_body(body[i])]]

RECURSIVE _remove_docstrings_recursive(_)
_remove_docstrings_recursive(node) ==
    LET body == IF /\ node.type \in ScopeTypes
                   /\ node.body # <<>>
                   /\ IsStringLiteralStmt(node.body[1])
                THEN Tail(node.body)
                ELSE node.body
    IN  [node EXCEPT !.body =
            [i \in 1..Len(body) |-> _remove_docstrings_recursive(body[i])]]

\* The local names of a call that are bound to trees.  A name is bound to an
\* object; _remove_docstrings_recursive changes the object it is given in
\* place, so what it does to tree_copy is seen through every name bound to
\* the same object.
TreeNames == {"original_ast", "current_ast", "tree_copy"}
Unbound == [n \in TreeNames |-> None]

\* an extraction that strips the tree it is given (tree_copy = tree)
_extract_code_structure_in_place(locals_, tree) ==
    LET stripped == [locals_ EXCEPT ![tree] = Some(_remove_docstrings_recursive(@[1]))]
        aliased == [stripped EXCEPT !["tree_copy"] = stripped[tree]]
    IN  [result |-> ast_dump(aliased["tree_copy"][1]), locals |-> aliased]

\* _extract_code_structure(tree): the dump it returns and the objects after
\* the call; tree names the argument
_extract_code_structure(locals_, tree) ==
    LET copied == [locals_ EXCEPT !["tree_copy"] = locals_[tree]]
        stripped == [copied EXCEPT !["tree_copy"] =
                        Some(_remove_docstrings_recursive(@[1]))]
    IN  [result |-> ast_dump(stripped["tree_copy"][1]), locals |-> stripped]

\* the comparison with its sense inverted
_structures_match_inverted(orig_structure, curr_structure) ==
    orig_structure # curr_structure

_structures_match(orig_structure, curr_structure) == orig_structure = curr_structure

\* a getter that tests the text for truth, so "" counts as absent
_get_docstring_truthy(node) ==
    IF /\ node.body # <<>> /\ IsStringLiteralStmt(node.body[1])
       /\ node.body[1].value.value # ""
    THEN Some(node.body[1].value.value)
    ELSE None

_get_docstring(node) ==
    IF node.body # <<>> /\ IsStringLiteralStmt(node.body[1])
    THEN Some(node.body[1].value.value)
    ELSE None

\* ast.walk: breadth first, children in field order (statements only live
\* in body)
RECURSIVE ast_walk_queue(_)
ast_walk_queue(todo) ==
    IF todo = <<>> THEN <<>>
    ELSE <<Head(todo)>> \o ast_walk_queue(Tail(todo) \o Head(todo).body)

ast_walk(tree) == ast_walk_queue(<<tree>>)

\* {n.name: n for n in ast.walk(tree) if isinstance(n, types)}: a later node
\* of the walk replaces an earlier one with the same name
NamedNodes(tree, types) ==
    LET walk == ast_walk(tree)
        idx == {i \in 1..Len(walk) : walk[i].type \in types}
        names == {walk[i].name : i \in idx}
        Last(nm) == CHOOSE i \in idx :
                        /\ walk[i].name = nm
                        /\ \A j \in idx : walk[j].name = nm => j <= i
    IN  [nm \in names |-> walk[Last(nm)]]

\* all orders in which a set can be iterated
Orders(S) ==
    {f \in [1..Cardinality(S) -> S] : \A i, j \in DOMAIN f : f[i] = f[j] => i = j}

DocChange(type, name, original, current) ==
    [type |-> type, name |-> name, original |-> original, current |-> current]

\* a loop that reads both documentation strings from the current version
LoopEntries_current_twice(type, orig_nodes, curr_nodes, order) ==
    LET curr_doc(nm) == IF nm \in DOMAIN curr_nodes
                        THEN _get_docstring(curr_nodes[nm]) ELSE None
        all == [i \in DOMAIN order |->
                   DocChange(type, order[i], curr_doc(order[i]), curr_doc(order[i]))]
    IN  SelectSeq(all, LAMBDA e : e.original # e.current)

\* the entries one "for name in set(orig) | set(curr)" loop appends, for one
\* iteration order
LoopEntries(type, orig_nodes, curr_nodes, order) ==
    LET orig_doc(nm) == IF nm \in DOMAIN orig_nodes
                        THEN _get_docstring(orig_nodes[nm]) ELSE None
        curr_doc(nm) == IF nm \in DOMAIN curr_nodes
                        THEN _get_docstring(curr_nodes[nm]) ELSE None
        all == [i \in DOMAIN order |->
                   DocChange(type, order[i], orig_doc(order[i]), curr_doc(order[i]))]
    IN  SelectSeq(all, LAMBDA e : e.original # e.current)

\* a comparison that runs the class loop before the function loop
_compare_docstrings_classes_first(orig_ast, curr_ast) ==
    LET orig_module_doc == _get_docstring(orig_ast)
        curr_module_doc == _get_docstring(curr_ast)
        module_changes ==
            IF orig_module_doc # curr_module_doc
            THEN <<DocChange("module", "__module__", orig_module_doc, curr_module_doc)>>
            ELSE <<>>
        orig_functions == NamedNodes(orig_ast, FunctionTypes)
        curr_functions == NamedNodes(curr_ast, FunctionTypes)
        orig_classes == NamedNodes(orig_ast, {"ClassDef"})
        curr_classes == NamedNodes(curr_ast, {"ClassDef"})
        func_names == DOMAIN orig_functions \cup DOMAIN curr_functions
        class_names == DOMAIN orig_classes \cup DOMAIN curr_classes
    IN  {module_changes
            \o LoopEntries("class", orig_classes, curr_classes, co)
            \o LoopEntries("function", orig_functions, curr_functions, fo) :
         fo \in Orders(func_names), co \in Orders(class_names)}

\* the set of lists _compare_docstrings can return (set iteration order is
\* not fixed)
_compare_docstrings(orig_ast, curr_ast) ==
    LET orig_module_doc == _get_docstring(orig_ast)
        curr_module_doc == _get_docstring(curr_ast)
        module_changes ==
            IF orig_module_doc # curr_module_doc
            THEN <<DocChange("module", "__module__", orig_module_doc, curr_module_doc)>>
            ELSE <<>>
        orig_functions == NamedNodes(orig_ast, FunctionTypes)
        curr_functions == NamedNodes(curr_ast, FunctionTypes)
        orig_classes == NamedNodes(orig_ast, {"ClassDef"})
        curr_classes == NamedNodes(curr_ast, {"ClassDef"})
        func_names == DOMAIN orig_functions \cup DOMAIN curr_functions
        class_names == DOMAIN orig_classes \cup DOMAIN curr_classes
    IN  {module_changes
            \o LoopEntries("function", orig_functions, curr_functions, fo)
            \o LoopEntries("class", orig_classes, curr_classes, co) :
         fo \in Orders(func_names), co \in Orders(class_names)}

\* Path.read_text() of the current file: [exc, msg, content]
read_text(file) ==
    IF file.state = "missing"
    THEN [exc |-> "FileNotFoundError", msg |-> "No such file or directory", content |-> Module(<<>>)]
    ELSE IF file.state = "undecodable"
    THEN [exc |-> "UnicodeDecodeError", msg |-> "invalid start byte", content |-> Module(<<>>)]
    ELSE [exc |-> "", msg |-> "", content |-> file.content]

ValidationResult(passed, status, reason, docstring_changes) ==
    [passed |-> passed, status |-> status, reason |-> reason,
     docstring_changes |-> docstring_changes]

\* how a call ends: exc = "" and a result, or an exception leaving the call
Return(result) == [called |-> TRUE, exc |-> "", msg |-> "", result |-> result]
Raise(exc, msg) ==
    [called |-> TRUE, exc |-> exc, msg |-> msg,
     result |-> ValidationResult(FALSE, "", None, None)]

\* what "except OSError" would catch
OSErrorSubclasses == {"FileNotFoundError", "PermissionError"}

\* the classes "except Exception" catches, among those the body can raise
ExceptionSubclasses ==
    {"SyntaxError", "FileNotFoundError", "PermissionError", "UnicodeDecodeError"}

\* original_ast and current_ast as the two ast.parse calls bind them
validate_changes_parsed(original_content, current_file_path) ==
    LET rd == read_text(current_file_path)
        orig == ast_parse(original_content)
        curr == ast_parse(rd.content)
    IN  IF rd.exc # "" \/ orig.exc # "" THEN Unbound
        ELSE IF curr.exc # "" THEN [Unbound EXCEPT !["original_ast"] = Some(orig.tree)]
        ELSE [Unbound EXCEPT !["original_ast"] = Some(orig.tree),
                             !["current_ast"] = Some(curr.tree)]

\* the two _extract_code_structure calls, in order
validate_changes_structures(parsed) ==
    LET first == _extract_code_structure(parsed, "original_ast")
        second == _extract_code_structure(first.locals, "current_ast")
    IN  [original_structure |-> first.result,
         current_structure |-> second.result,
         locals |-> second.locals]

\* the trees the local names are bound to when the call ends
validate_changes_locals(original_content, current_file_path) ==
    LET parsed == validate_changes_parsed(original_content, current_file_path)
    IN  IF parsed["current_ast"] = None THEN parsed
        ELSE validate_changes_structures(parsed).locals

\* the body of the try statement of validate_changes
validate_changes_try(original_content, current_file_path) ==
    LET rd == read_text(current_file_path)
        orig == ast_parse(original_content)
        curr == ast_parse(rd.content)
        st == validate_changes_structures(
                  validate_changes_parsed(original_content, current_file_path))
    IN  IF rd.exc # "" THEN {Raise(rd.exc, rd.msg)}
        ELSE IF orig.exc # "" THEN {Raise(orig.exc, orig.msg)}
        ELSE IF curr.exc # "" THEN {Raise(curr.exc, curr.msg)}
        ELSE IF ~_structures_match(st.original_structure, st.current_structure)
        THEN {Return(ValidationResult(FALSE, "structure_changed",
                 Some(<<"Function/class signatures, imports, or logic were modified">>),
                 None))}
        ELSE {Return(ValidationResult(TRUE, "valid_docstring_only_changes", None,
                                      Some(docstring_changes))) :
              docstring_changes \in _compare_docstrings(st.locals["original_ast"][1],
                                                        st.locals["current_ast"][1])}

\* the handlers without the SyntaxError clause
validate_changes_except_generic(o) ==
    IF o.exc = "" THEN o
    ELSE IF o.exc \in ExceptionSubclasses
    THEN Return(ValidationResult(FALSE, "validation_error",
                    Some(<<"Validation failed: ", o.msg>>), None))
    ELSE o

\* the except clauses of validate_changes
validate_changes_except(o) ==
    IF o.exc = "" THEN o
    ELSE IF o.exc = "SyntaxError"
    THEN Return(ValidationResult(FALSE, "syntax_error",
                    Some(<<"Modified file has syntax errors: ", o.msg>>), None))
    ELSE IF o.exc \in ExceptionSubclasses
    THEN Return(ValidationResult(FALSE, "validation_error",
                    Some(<<"Validation failed: ", o.msg>>), None))
    ELSE o

\* the set of ways validate_changes(original_content, current_file_path) can end
validate_changes(original_content, current_file_path) ==
    {validate_changes_except(o) :
        o \in validate_changes_try(original_content, current_file_path)}

(***************************************************************************)
(* The file under validation.  FileProcessor reads original_content, the   *)
(* external assistant rewrites the file, validate_changes compares.  The   *)
(* assistant is the environment: it may make any edit.  Edits address a    *)
(* compound statement by its path, the sequence of body positions leading  *)
(* to it from the module.                                                  *)
(***************************************************************************)
VARIABLES original_content, current_file, outcome, hist, locals

validator_vars == <<original_content, current_file, outcome, hist, locals>>

\* The state of one determine_diff_commits call (the range resolver, modelled
\* further down): the environment github_config and distance_to_head, the
\* position pc with the return labels in stack, the local variables of
\* _determine_pr_range and _determine_push_range, the value ret a finder
\* returned, the commit being counted, the positions of the two for loops
\* (target_ref, pattern), the git queries issued so far and the range
\* returned.
VARIABLES github_config, distance_to_head, pc, stack, pr_base, last_bot,
          oldest_available, ret, commit, target_ref, pattern, queries, diff_range

resolver_vars == <<github_config, distance_to_head, pc, stack, pr_base, last_bot,
                   oldest_available, ret, commit, target_ref, pattern, queries,
                   diff_range>>

\* The state of file discovery (get_changed_py_files and get_file_diff,
\* modelled further down): the repository (the Python files git tracks, the
\* ones present on disk, whether an automation commit is in the history),
\* what _should_return_all_python_files found, and the two return values.
VARIABLES repository, history_check, changed_files, file_diff

discovery_vars == <<repository, history_check, changed_files, file_diff>>

\* The state of one run of _main_impl (modelled at the end): the files on
\* disk and what they held when the run began, the configuration
\* (max_retries, whether PRE_COMMIT_HOOK is set), the position of the loops
\* (file_index, attempt), the attempts made on each file, the results of
\* process_multiple_files, whether a write_text failed, the files staged,
\* whether create_commit was called and what it returned, and the value
\* returned.
VARIABLES disk, initial_disk, max_retries, pre_commit_hook, file_index, attempt,
          attempts_log, results, write_failed, staged, commit_created, exit_code

run_vars == <<disk, initial_disk, max_retries, pre_commit_hook, file_index, attempt,
              attempts_log, results, write_failed, staged, commit_created,
              exit_code>>

vars == <<validator_vars, resolver_vars, discovery_vars, run_vars>>

\* no range is being resolved
ResolverIdle ==
    /\ github_config = [event_name |-> "", base_ref |-> None]
    /\ distance_to_head = <<>>
    /\ pc = "idle"
    /\ stack = <<>>
    /\ pr_base = None /\ last_bot = None /\ oldest_available = None
    /\ ret = None
    /\ commit = ""
    /\ target_ref = 0
    /\ pattern = 0
    /\ queries = <<>>
    /\ diff_range = None

\* no file discovery is running
DiscoveryIdle ==
    /\ repository = [tracked |-> <<>>, on_disk |-> {}, bot_in_history |-> FALSE]
    /\ history_check = None
    /\ changed_files = None
    /\ file_diff = None

\* no run is in progress
RunIdle ==
    /\ disk = <<>> /\ initial_disk = <<>>
    /\ max_retries = 0
    /\ pre_commit_hook = ""
    /\ file_index = 0 /\ attempt = 0
    /\ attempts_log = <<>>
    /\ results = <<>>
    /\ write_failed = FALSE
    /\ staged = {}
    /\ commit_created = None
    /\ exit_code = None

\* at most this many documentation edits in one rewrite
MaxDocEdits == 2

RECURSIVE NodeAt(_, _)
NodeAt(node, path) ==
    IF path = <<>> THEN node ELSE NodeAt(node.body[Head(path)], Tail(path))

RECURSIVE ReplaceAt(_, _, _)
ReplaceAt(node, path, new) ==
    IF path = <<>> THEN new
    ELSE [node EXCEPT !.body[Head(path)] = ReplaceAt(@, Tail(path), new)]

RECURSIVE PathsFrom(_, _)
PathsFrom(node, prefix) ==
    {prefix} \cup
    UNION {PathsFrom(node.body[i], Append(prefix, i)) :
             i \in {j \in 1..Len(node.body) : node.body[j].type \in CompoundTypes}}

CompoundPaths(text) == PathsFrom(text, <<>>)
ScopePaths(text) == {p \in CompoundPaths(text) : NodeAt(text, p).type \in ScopeTypes}
DefPaths(text) == {p \in CompoundPaths(text) : NodeAt(text, p).type \in FunctionTypes}
ClassPaths(text) == {p \in CompoundPaths(text) : NodeAt(text, p).type = "ClassDef"}

\* a line that is nothing but a string literal
IsStringLine(stmt) ==
    stmt.type = "Expr" /\ stmt.value.type = "Constant" /\ stmt.value.kind = "str"

HasLeadingString(node) == node.body # <<>> /\ IsStringLine(node.body[1])

InsertAt(seq, i, x) == SubSeq(seq, 1, i - 1) \o <<x>> \o SubSeq(seq, i, Len(seq))
RemoveAt(seq, i) == SubSeq(seq, 1, i - 1) \o SubSeq(seq, i + 1, Len(seq))

(***************************************************************************)
(* Files the action can meet (shapes taken from tests/unit/               *)
(* test_ast_validator.py).                                                 *)
(***************************************************************************)
\* def f(a, b): return a + b
ProgFunction ==
    Module(<<Def("FunctionDef", "f", <<"a", "b">>, "", <<>>, <<Simple("Return", "a+b")>>)>>)

\* class Animal: def speak(self): pass
\* class Dog(Animal): def speak(self): """Woof."""; return "Woof"
ProgInheritance ==
    Module(<<Class("Animal", <<>>, <<>>,
                <<Def("FunctionDef", "speak", <<"self">>, "", <<>>, <<Simple("Pass", "")>>)>>),
             Class("Dog", <<"Animal">>, <<>>,
                <<Def("FunctionDef", "speak", <<"self">>, "str", <<>>,
                      <<StrExpr("doc"), Simple("Return", "Woof")>>)>>)>>)

\* """doc""" / """second""" / def hello(): return "world"
ProgTwoStrings ==
    Module(<<StrExpr("doc"), StrExpr("second"),
             Def("FunctionDef", "hello", <<>>, "", <<>>, <<Simple("Return", "world")>>)>>)

\* """doc""" / import os / def outer(): async def inner(): """doc"""; return
\*                                      try: return inner()
ProgNested ==
    Module(<<StrExpr("doc"), Simple("Import", "os"),
             Def("FunctionDef", "outer", <<>>, "", <<>>,
                 <<Def("AsyncFunctionDef", "inner", <<>>, "", <<>>,
                       <<StrExpr("doc"), Simple("Return", "")>>),
                   Block("Try", <<Simple("Return", "inner()")>>)>>)>>)

\* @final class MyError(Exception): """doc"""
ProgDocOnlyClass ==
    Module(<<Class("MyError", <<"Exception">>, <<"final">>, <<StrExpr("doc")>>)>>)

\* for x in y: "note"; pass   /   def f(): 42; f"text"
ProgBlocks ==
    Module(<<Block("For", <<StrExpr("note"), Simple("Pass", "")>>),
             Def("FunctionDef", "f", <<>>, "", <<"cache">>, <<NumExpr("42"), FStrExpr("text")>>)>>)

\* def broken(:
ProgBroken == Module(<<BadLine>>)

SeedPrograms ==
    {ProgFunction, ProgInheritance, ProgTwoStrings, ProgNested,
     ProgDocOnlyClass, ProgBlocks, ProgBroken}

\* what the assistant writes into documentation positions
DocTexts == {"", "doc", "new"}

\* statements the assistant may add
NewStatements ==
    {StrExpr("new"), Simple("Assign", "y"), Simple("Import", "sys"),
     Def("FunctionDef", "g", <<>>, "", <<>>, <<Simple("Pass", "")>>)}

NoOutcome ==
    [called |-> FALSE, exc |-> "", msg |-> "",
     result |-> ValidationResult(FALSE, "", None, None)]

NoEdits == [docEdits |-> 0, displaced |-> FALSE, nonDoc |-> ""]

Init ==
    /\ original_content \in SeedPrograms
    /\ current_file = [state |-> "ok", content |-> original_content]
    /\ outcome = NoOutcome
    /\ hist = NoEdits
    /\ locals = Unbound
    /\ ResolverIdle
    /\ DiscoveryIdle
    /\ RunIdle

\* the assistant may edit until the validator is called
Editing == ~outcome.called /\ current_file.state = "ok"

Rewrite(path, node) ==
    current_file' = [current_file EXCEPT !.content = ReplaceAt(@, path, node)]

DocEdit(displaces) ==
    /\ hist.docEdits < MaxDocEdits
    /\ hist' = [hist EXCEPT !.docEdits = @ + 1, !.displaced = @ \/ displaces]
    /\ UNCHANGED <<original_content, outcome, locals, resolver_vars, discovery_vars, run_vars>>

NonDocEdit(tag) ==
    /\ hist.nonDoc = ""
    /\ hist' = [hist EXCEPT !.nonDoc = tag]
    /\ UNCHANGED <<original_content, outcome, locals, resolver_vars, discovery_vars, run_vars>>

\* a scope whose first statement is not a string literal gets one
InsertDoc ==
    /\ Editing
    /\ \E p \in ScopePaths(current_file.content), s \in DocTexts :
          LET n == NodeAt(current_file.content, p)
          IN  /\ ~HasLeadingString(n)
              /\ Rewrite(p, [n EXCEPT !.body = <<StrExpr(s)>> \o @])
              /\ DocEdit(FALSE)

\* the text of the first-statement string literal of a scope changes
EditDoc ==
    /\ Editing
    /\ \E p \in ScopePaths(current_file.content), s \in DocTexts :
          LET n == NodeAt(current_file.content, p)
          IN  /\ HasLeadingString(n)
              /\ n.body[1].value.value # s
              /\ Rewrite(p, [n EXCEPT !.body[1] = StrExpr(s)])
              /\ DocEdit(FALSE)

\* the first-statement string literal of a scope is deleted
RemoveDoc ==
    /\ Editing
    /\ \E p \in ScopePaths(current_file.content) :
          LET n == NodeAt(current_file.content, p)
          IN  /\ HasLeadingString(n)
              /\ Rewrite(p, [n EXCEPT !.body = Tail(@)])
              /\ DocEdit(Len(n.body) >= 2 /\ IsStringLine(n.body[2]))

\* a statement is added, other than a string literal in the first position
\* of a scope (with EditDoc and a second string literal added behind it, the
\* same file is reached when the scope already starts with one)
AddStmt ==
    /\ Editing
    /\ \E p \in CompoundPaths(current_file.content), st \in NewStatements :
          LET n == NodeAt(current_file.content, p)
          IN  \E i \in 1..(Len(n.body) + 1) :
                /\ ~(i = 1 /\ IsStringLine(st) /\ n.type \in ScopeTypes)
                /\ Rewrite(p, [n EXCEPT !.body = InsertAt(@, i, st)])
                /\ NonDocEdit(IF IsStringLine(st)
                              THEN (IF i = 1 THEN "AddStringBlockFirst"
                                    ELSE IF i = 2 /\ n.type \in ScopeTypes
                                            /\ HasLeadingString(n)
                                    THEN "AddStringAfterDoc"
                                    ELSE "AddStringNonFirst")
                              ELSE IF st.type \in ScopeTypes THEN "AddScope"
                              ELSE "AddStmt")

\* a statement other than the first-statement string literal of a scope is
\* deleted
RemoveStmt ==
    /\ Editing
    /\ \E p \in CompoundPaths(current_file.content) :
          LET n == NodeAt(current_file.content, p)
          IN  \E i \in 1..Len(n.body) :
                /\ ~(i = 1 /\ IsStringLine(n.body[1]) /\ n.type \in ScopeTypes)
                /\ Rewrite(p, [n EXCEPT !.body = RemoveAt(@, i)])
                /\ NonDocEdit(IF n.body[i].type \in ScopeTypes
                              THEN "RemoveScope" ELSE "RemoveStmt")

AddParam ==
    /\ Editing
    /\ \E p \in DefPaths(current_file.content) :
          /\ Rewrite(p, [NodeAt(current_file.content, p) EXCEPT !.args = Append(@, "c")])
          /\ NonDocEdit("AddParam")

RemoveParam ==
    /\ Editing
    /\ \E p \in DefPaths(current_file.content) :
          LET n == NodeAt(current_file.content, p)
          IN  /\ n.args # <<>>
              /\ Rewrite(p, [n EXCEPT !.args = SubSeq(@, 1, Len(@) - 1)])
              /\ NonDocEdit("RemoveParam")

AddDecorator ==
    /\ Editing
    /\ \E p \in DefPaths(current_file.content) \cup ClassPaths(current_file.content) :
          /\ Rewrite(p, [NodeAt(current_file.content, p) EXCEPT
                            !.decorator_list = <<"staticmethod">> \o @])
          /\ NonDocEdit("AddDecorator")

RemoveDecorator ==
    /\ Editing
    /\ \E p \in DefPaths(current_file.content) \cup ClassPaths(current_file.content) :
          LET n == NodeAt(current_file.content, p)
          IN  /\ n.decorator_list # <<>>
              /\ Rewrite(p, [n EXCEPT !.decorator_list = Tail(@)])
              /\ NonDocEdit("RemoveDecorator")

AddBase ==
    /\ Editing
    /\ \E p \in ClassPaths(current_file.content) :
          /\ Rewrite(p, [NodeAt(current_file.content, p) EXCEPT !.bases = Append(@, "Mixin")])
          /\ NonDocEdit("AddBase")

RemoveBase ==
    /\ Editing
    /\ \E p \in ClassPaths(current_file.content) :
          LET n == NodeAt(current_file.content, p)
          IN  /\ n.bases # <<>>
              /\ Rewrite(p, [n EXCEPT !.bases = Tail(@)])
              /\ NonDocEdit("RemoveBase")

\* a return annotation is added or removed
ChangeAnnotation ==
    /\ Editing
    /\ \E p \in DefPaths(current_file.content) :
          LET n == NodeAt(current_file.content, p)
          IN  /\ Rewrite(p, [n EXCEPT !.returns = IF @ = "" THEN "int" ELSE ""])
              /\ NonDocEdit(IF n.returns = "" THEN "AddAnnotation" ELSE "RemoveAnnotation")

RenameScope ==
    /\ Editing
    /\ \E p \in DefPaths(current_file.content) \cup ClassPaths(current_file.content) :
          /\ Rewrite(p, [NodeAt(current_file.content, p) EXCEPT !.name = "renamed"])
          /\ NonDocEdit("RenameScope")

\* the assistant leaves a line that does not parse
BreakSyntax ==
    /\ Editing
    /\ Rewrite(<<>>, [current_file.content EXCEPT !.body = Append(@, BadLine)])
    /\ NonDocEdit("BreakSyntax")

\* the file disappears or is left with bytes that do not decode
LoseFile ==
    /\ Editing
    /\ \E st \in {"missing", "undecodable"} :
          current_file' = [current_file EXCEPT !.state = st]
    /\ UNCHANGED <<original_content, outcome, hist, locals, resolver_vars, discovery_vars, run_vars>>

\* FileProcessor._attempt_processing, step 3
Validate ==
    /\ ~outcome.called
    /\ outcome' \in validate_changes(original_content, current_file)
    /\ locals' = validate_changes_locals(original_content, current_file)
    /\ UNCHANGED <<original_content, current_file, hist, resolver_vars, discovery_vars, run_vars>>

Next ==
    \/ InsertDoc \/ EditDoc \/ RemoveDoc
    \/ AddStmt \/ RemoveStmt
    \/ AddParam \/ RemoveParam
    \/ AddDecorator \/ RemoveDecorator
    \/ AddBase \/ RemoveBase
    \/ ChangeAnnotation \/ RenameScope
    \/ BreakSyntax \/ LoseFile
    \/ Validate

SpecValidator == Init /\ [][Next]_vars

(***************************************************************************)
(* Vocabulary of the properties.                                           *)
(***************************************************************************)
OrigParses == WellFormed(original_content)
CurrReadable == current_file.state = "ok"
CurrParses == CurrReadable /\ WellFormed(current_file.content)
BothParse == OrigParses /\ CurrParses
Returned == outcome.called /\ outcome.exc = ""
Passed == Returned /\ outcome.result.passed
Status == outcome.result.status
StructureChanged == Returned /\ ~outcome.result.passed /\ Status = "structure_changed"

\* the documentation string of a scope of a source text, None when absent
LeadingDoc(node) ==
    IF HasLeadingString(node) THEN Some(node.body[1].value.value) ELSE None

\* every scope of a source text in source order, with the names of the
\* scopes around it
RECURSIVE ScopesOf(_, _)
ScopesOf(node, enclosing) ==
    LET qual == IF node.type \in ScopeTypes \ {"Module"}
                THEN Append(enclosing, node.name) ELSE enclosing
        RECURSIVE Inner(_)
        Inner(body) == IF body = <<>> THEN <<>>
                       ELSE ScopesOf(Head(body), qual) \o Inner(Tail(body))
        here == [kind |-> IF node.type = "Module" THEN "module"
                          ELSE IF node.type \in FunctionTypes THEN "function"
                          ELSE "class",
                 name |-> IF node.type = "Module" THEN "__module__" ELSE node.name,
                 type |-> node.type,
                 qualname |-> qual,
                 doc |-> LeadingDoc(node)]
    IN  (IF node.type \in ScopeTypes THEN <<here>> ELSE <<>>) \o Inner(node.body)

OrigScopes == ScopesOf(original_content, <<>>)
CurrScopes == ScopesOf(current_file.content, <<>>)

QualifiedNames(scopes) ==
    [i \in DOMAIN scopes |-> [type |-> scopes[i].type, qualname |-> scopes[i].qualname]]

\* positions of the scopes whose documentation string differs
ChangedScopes ==
    {i \in DOMAIN OrigScopes \cap DOMAIN CurrScopes : OrigScopes[i].doc # CurrScopes[i].doc}

\* no two functions and no two classes of the file share a bare name
NameIsUnique(i) ==
    \A j \in DOMAIN OrigScopes :
        (OrigScopes[j].kind = OrigScopes[i].kind /\ OrigScopes[j].name = OrigScopes[i].name)
            => j = i
UniqueNames == \A i \in DOMAIN OrigScopes : NameIsUnique(i)

Changes == outcome.result.docstring_changes[1]

EntryOf(i) ==
    DocChange(OrigScopes[i].kind, OrigScopes[i].name, OrigScopes[i].doc, CurrScopes[i].doc)

HasEntry(i) == \E k \in DOMAIN Changes : Changes[k] = EntryOf(i)

ExactlyTheChangedScopes ==
    /\ Len(Changes) = Cardinality(ChangedScopes)
    /\ \A i \in ChangedScopes : HasEntry(i)
    /\ \A k \in DOMAIN Changes : \E i \in ChangedScopes : Changes[k] = EntryOf(i)

StructuralTags ==
    {"AddStmt", "RemoveStmt", "AddParam", "RemoveParam", "AddDecorator",
     "RemoveDecorator", "AddBase", "RemoveBase", "AddAnnotation",
     "RemoveAnnotation", "AddStringNonFirst", "AddStringAfterDoc",
     "AddStringBlockFirst", "AddScope", "RemoveScope"}

\* the rewrite made documentation edits only, each of which left every other
\* statement where it was
DocOnlyRewrite == hist.nonDoc = "" /\ hist.docEdits >= 1 /\ ~hist.displaced

(***************************************************************************)
(* C1. Idempotence: validating a syntactically valid text against a file   *)
(* holding the same text returns passed, status                            *)
(* valid_docstring_only_changes and an empty docstring_changes list.       *)
(***************************************************************************)
C1_Idempotence ==
    (outcome.called /\ OrigParses /\ CurrReadable
        /\ current_file.content = original_content)
    => /\ Returned
       /\ outcome.result =
             ValidationResult(TRUE, "valid_docstring_only_changes", None, Some(<<>>))

C1_Witness ==
    /\ outcome.called /\ original_content = ProgNested
    /\ current_file = [state |-> "ok", content |-> ProgNested]
    /\ hist.docEdits = 2
    /\ Passed

(***************************************************************************)
(* C2 as stated: whenever both texts parse and the rewrite only inserted,  *)
(* edited or removed first-statement string literals of scopes, the        *)
(* validation passes.                                                      *)
(***************************************************************************)
C2_AsStated ==
    (outcome.called /\ BothParse /\ hist.nonDoc = "" /\ hist.docEdits >= 1)
    => Passed

(***************************************************************************)
(* C2 amended: whenever both texts parse and the rewrite only inserted a   *)
(* first-statement string literal into scopes that had none, edited one,   *)
(* or removed one that is not directly followed by another string-literal  *)
(* statement, the validation passes with status                            *)
(* valid_docstring_only_changes.                                           *)
(***************************************************************************)
C2_DocOnlyEditsPass ==
    (outcome.called /\ BothParse /\ DocOnlyRewrite)
    => Passed /\ Status = "valid_docstring_only_changes"

C2_Witness ==
    /\ Passed /\ DocOnlyRewrite /\ hist.docEdits = 2
    /\ Cardinality(ChangedScopes) = 2
    /\ \E i \in ChangedScopes : OrigScopes[i].type = "AsyncFunctionDef"

(***************************************************************************)
(* C3 as stated: when validation passes, docstring_changes has exactly one *)
(* entry for every scope whose documentation string differs and no other   *)
(* entry, also when scopes share a name.                                   *)
(***************************************************************************)
C3_AsStated == Passed => ExactlyTheChangedScopes

(***************************************************************************)
(* C3 amended: when validation passes and no two functions and no two      *)
(* classes share a bare name, docstring_changes has exactly one entry for  *)
(* every scope whose documentation string differs and no other entry; in   *)
(* every passing result each entry describes a scope whose documentation   *)
(* string differs and no (type, name) pair is listed twice.                *)
(***************************************************************************)
C3_ChangedScopesListed ==
    Passed =>
       /\ UniqueNames => ExactlyTheChangedScopes
       /\ \A k \in DOMAIN Changes : \E i \in ChangedScopes : Changes[k] = EntryOf(i)
       /\ \A k, l \in DOMAIN Changes :
             (Changes[k].type = Changes[l].type /\ Changes[k].name = Changes[l].name)
                => k = l

C3_Witness ==
    /\ Passed /\ UniqueNames
    /\ Cardinality(ChangedScopes) = 2 /\ Len(Changes) = 2
    /\ Cardinality(DOMAIN OrigScopes) > 2
    /\ \E i \in ChangedScopes : OrigScopes[i].kind = "module"

(***************************************************************************)
(* C4. Whenever both texts parse and the rewrite added or removed a        *)
(* parameter, import, decorator, base class, annotation or a statement     *)
(* that is not a leading documentation string, at any depth, the result is *)
(* passed=false with status structure_changed, also when the rewrite       *)
(* changed documentation strings as well.                                  *)
(***************************************************************************)
C4_NonDocEditRejected ==
    (outcome.called /\ BothParse /\ hist.nonDoc \in StructuralTags /\ ~hist.displaced)
    => StructureChanged

C4_Witness ==
    /\ StructureChanged /\ BothParse
    /\ hist.nonDoc = "RemoveDecorator" /\ hist.docEdits >= 1 /\ ~hist.displaced

(***************************************************************************)
(* C5. Position sensitivity: whenever both texts parse and the rewrite     *)
(* added a string-literal statement in a non-first position of a block,    *)
(* directly after a documentation string included, the result is           *)
(* structure_changed and never a pass.                                     *)
(***************************************************************************)
C5_PositionSensitivity ==
    (outcome.called /\ BothParse /\ ~hist.displaced
        /\ hist.nonDoc \in {"AddStringNonFirst", "AddStringAfterDoc"})
    => StructureChanged

C5_Witness ==
    /\ StructureChanged /\ hist.nonDoc = "AddStringAfterDoc" /\ hist.docEdits = 0

(***************************************************************************)
(* C6. Blocks that are not scopes have no documentation position: whenever *)
(* both texts parse and the rewrite added a string literal as the first    *)
(* statement of an if/for/while/try/with/match-case body, the result is    *)
(* structure_changed, while the same insertion into a Module, FunctionDef, *)
(* AsyncFunctionDef or ClassDef body that had no leading string passes.    *)
(***************************************************************************)
C6_BlocksAreNotScopes ==
    /\ (outcome.called /\ BothParse /\ ~hist.displaced
           /\ hist.nonDoc = "AddStringBlockFirst")
       => StructureChanged
    /\ (outcome.called /\ BothParse /\ DocOnlyRewrite /\ hist.docEdits = 1
           /\ Len(CurrScopes) = Len(OrigScopes)
           /\ \E i \in ChangedScopes : OrigScopes[i].doc = None)
       => Passed

C6_Witness ==
    /\ StructureChanged /\ hist.nonDoc = "AddStringBlockFirst" /\ hist.docEdits = 0
    /\ original_content = ProgNested

(***************************************************************************)
(* C7. A pass needs the same scopes: whenever validation passes, both      *)
(* texts hold the same functions, methods and classes under the same       *)
(* qualified names; when both texts parse and the rewrite added, removed   *)
(* or renamed a scope, the result is structure_changed.                    *)
(***************************************************************************)
C7_ScopesMatch ==
    /\ Passed => QualifiedNames(OrigScopes) = QualifiedNames(CurrScopes)
    /\ (outcome.called /\ BothParse /\ ~hist.displaced
           /\ hist.nonDoc \in {"AddScope", "RemoveScope", "RenameScope"})
       => StructureChanged

C7_Witness ==
    /\ StructureChanged /\ hist.nonDoc = "RenameScope"
    /\ Len(OrigScopes) = Len(CurrScopes)
    /\ QualifiedNames(OrigScopes) # QualifiedNames(CurrScopes)

(***************************************************************************)
(* C8. Whenever the file is read and the before text or the file content   *)
(* does not parse, the result is passed=false with status syntax_error and *)
(* a non-empty reason; when either side does not parse the status is never *)
(* valid_docstring_only_changes or structure_changed.                      *)
(***************************************************************************)
C8_ParseFailure ==
    /\ (outcome.called /\ CurrReadable /\ ~BothParse)
       => /\ Returned /\ ~outcome.result.passed /\ Status = "syntax_error"
          /\ outcome.result.reason # None
          /\ \A k \in DOMAIN outcome.result.reason[1] : outcome.result.reason[1][k] # ""
    /\ (outcome.called /\ ~BothParse)
       => Status \notin {"valid_docstring_only_changes", "structure_changed"}

C8_Witness ==
    /\ Returned /\ Status = "syntax_error" /\ OrigParses
    /\ hist.nonDoc = "RemoveStmt" /\ CurrReadable

(***************************************************************************)
(* C9. validate_changes never raises: every call returns a result, and     *)
(* when the file cannot be read the result is passed=false with status     *)
(* validation_error and the error text in the reason.                      *)
(***************************************************************************)
C9_NeverRaises ==
    outcome.called =>
       /\ Returned
       /\ ~CurrReadable =>
             /\ ~outcome.result.passed /\ Status = "validation_error"
             /\ outcome.result.reason =
                   Some(<<"Validation failed: ", read_text(current_file).msg>>)

C9_Witness ==
    /\ Returned /\ current_file.state = "undecodable" /\ Status = "validation_error"

\* scope i got, lost or changed to the empty documentation string
EmptyDocChange(i) ==
    \/ OrigScopes[i].doc = None /\ CurrScopes[i].doc = Some("")
    \/ OrigScopes[i].doc \notin {None, Some("")} /\ CurrScopes[i].doc = Some("")
    \/ OrigScopes[i].doc = Some("") /\ CurrScopes[i].doc = None

(***************************************************************************)
(* C10 as stated: when validation passes and a scope's documentation       *)
(* string went from absent to "", from a text to "", or from "" to absent, *)
(* docstring_changes has an entry for that scope.                          *)
(***************************************************************************)
C10_AsStated ==
    Passed => \A i \in ChangedScopes : EmptyDocChange(i) => HasEntry(i)

(***************************************************************************)
(* C10 amended: when both texts parse and the structures match, the result *)
(* passes, and for every scope whose bare name no other function (or       *)
(* class) of the file shares and whose documentation string went from      *)
(* absent to "", from a text to "", or from "" to absent,                  *)
(* docstring_changes has an entry for that scope.                          *)
(***************************************************************************)
C10_AbsentIsNotEmpty ==
    Passed =>
       \A i \in ChangedScopes : (EmptyDocChange(i) /\ NameIsUnique(i)) => HasEntry(i)

C10_Witness ==
    /\ Passed
    /\ \E i \in ChangedScopes :
          /\ NameIsUnique(i) /\ HasEntry(i)
          /\ OrigScopes[i].doc = None /\ CurrScopes[i].doc = Some("")
    /\ \E i \in ChangedScopes :
          /\ NameIsUnique(i) /\ HasEntry(i)
          /\ OrigScopes[i].doc = Some("doc") /\ CurrScopes[i].doc = Some("")

(***************************************************************************)
(* C11: the order of docstring_changes.                                    *)
(***************************************************************************)
\* the depth in the tree of every scope, in the order of ScopesOf
RECURSIVE DepthsOf(_, _)
DepthsOf(node, depth) ==
    LET RECURSIVE Inner(_)
        Inner(body) == IF body = <<>> THEN <<>>
                       ELSE DepthsOf(Head(body), depth + 1) \o Inner(Tail(body))
    IN  (IF node.type \in ScopeTypes THEN <<depth>> ELSE <<>>) \o Inner(node.body)

OrigDepths == DepthsOf(original_content, 0)

\* scope i comes before scope j in a depth-first walk (source order)
DepthFirstBefore(i, j) == i < j

\* scope i comes before scope j in a breadth-first walk (ast.walk)
BreadthFirstBefore(i, j) ==
    \/ OrigDepths[i] < OrigDepths[j]
    \/ OrigDepths[i] = OrigDepths[j] /\ i < j

\* entry k describes scope i
Describes(k, i) ==
    OrigScopes[i].kind = Changes[k].type /\ OrigScopes[i].name = Changes[k].name

\* the entries can be matched with scopes so that they follow the walk
FollowsWalk(Before(_, _)) ==
    \E f \in [DOMAIN Changes -> DOMAIN OrigScopes] :
        /\ \A k \in DOMAIN Changes : Describes(k, f[k])
        /\ \A k, l \in DOMAIN Changes : k < l => Before(f[k], f[l])

\* C11 as stated: the module entry first, then the entries of the other
\* changed scopes in tree-traversal order (either walk is accepted)
C11_AsStated ==
    Passed => FollowsWalk(DepthFirstBefore) \/ FollowsWalk(BreadthFirstBefore)

TypeRank(type) == IF type = "module" THEN 0 ELSE IF type = "function" THEN 1 ELSE 2

\* C11 (amended): docstring_changes lists the module entry first, then every
\* function entry, then every class entry; a function entry comes before the
\* entry of the class that contains it
C11_ModuleFunctionsClasses ==
    Passed =>
        /\ \A k, l \in DOMAIN Changes :
              k < l => TypeRank(Changes[k].type) <= TypeRank(Changes[l].type)
        /\ \A k \in DOMAIN Changes : Changes[k].type = "module" => k = 1

\* a method is listed before its class, which comes first in the source
C11_Witness ==
    /\ Passed
    /\ \E k, l \in DOMAIN Changes :
          /\ k < l
          /\ Changes[k].type = "function" /\ Changes[l].type = "class"
          /\ \A i, j \in DOMAIN OrigScopes :
                Describes(k, i) /\ Describes(l, j) => j < i

(***************************************************************************)
(* C12: validate_changes reads and compares only.                          *)
(***************************************************************************)
\* the documentation strings of every scope of a tree, in source order
RECURSIVE DocsOf(_)
DocsOf(node) ==
    LET RECURSIVE Inner(_)
        Inner(body) == IF body = <<>> THEN <<>>
                       ELSE DocsOf(Head(body)) \o Inner(Tail(body))
    IN  (IF node.type \in ScopeTypes THEN <<_get_docstring(node)>> ELSE <<>>)
            \o Inner(node.body)

CallOfValidate == ~outcome.called /\ outcome'.called

\* C12: a call of validate_changes leaves the after-file (and the before
\* text) as it was, and when both texts parse the trees bound to
\* original_ast and current_ast at the end of the call are the trees
\* ast.parse returned, documentation strings included
C12_ReadAndCompareOnly ==
    [][CallOfValidate =>
          /\ current_file' = current_file
          /\ original_content' = original_content
          /\ BothParse =>
                /\ locals'["original_ast"] = Some(ast_parse(original_content).tree)
                /\ locals'["current_ast"] = Some(ast_parse(current_file.content).tree)
                /\ DocsOf(locals'["original_ast"][1])
                      = [i \in DOMAIN OrigScopes |-> OrigScopes[i].doc]
                /\ DocsOf(locals'["current_ast"][1])
                      = [i \in DOMAIN CurrScopes |-> CurrScopes[i].doc]]_vars

\* a call has ended on two parsed texts with documentation strings, a
\* stripped copy was made, and the changed documentation was reported
C12_Witness ==
    /\ Passed
    /\ Changes # <<>>
    /\ locals["tree_copy"] # None
    /\ locals["tree_copy"] # locals["current_ast"]
    /\ \E i \in DOMAIN OrigScopes : OrigScopes[i].doc # None

(***************************************************************************)
(* The range resolver: determine_diff_commits, DiffRangeDeterminer and     *)
(* GitCommitFinder.  Every git query is one step; what git answers is the  *)
(* environment's choice.                                                   *)
(***************************************************************************)
CommitInfo(sha, distance) == [sha |-> sha, distance_to_head |-> distance]
DiffRange(from_commit, to_commit) == [from_commit |-> from_commit, to_commit |-> to_commit]
\* the property DiffRange.has_diff
has_diff(self) == self.from_commit # self.to_commit

EVENT_PULL_REQUEST == "pull_request"
\* the patterns in the opposite order
GITHUB_ACTIONS_BOT_PATTERNS_reversed ==
    <<"*github-actions*", "github-actions\\[bot\\]", "github-actions[bot]">>

GITHUB_ACTIONS_BOT_PATTERNS ==
    <<"github-actions[bot]", "github-actions\\[bot\\]", "*github-actions*">>
LARGE_COMMIT_COUNT_FALLBACK == 999999

\* str.strip() on the values GITHUB_BASE_REF takes here
str_strip(text) == IF text \in {"", " "} THEN "" ELSE text

is_pull_request(config) == config.event_name = EVENT_PULL_REQUEST
has_base_ref(config) ==
    config.base_ref # None /\ str_strip(config.base_ref[1]) # ""

\* what subprocess.run gave: how the process ended and the lines it printed
Run(ended, stdout) == [ended |-> ended, stdout |-> stdout]

\* cmd_output(*cmd, check): the exception it raises, or the stdout it returns
cmd_output(run, check) ==
    IF run.ended = "timeout"
    THEN [exc |-> "CalledProcessError", stdout |-> <<>>]
    ELSE IF check /\ run.ended # "exit 0"
    THEN [exc |-> "CalledProcessError", stdout |-> <<>>]
    ELSE [exc |-> "", stdout |-> run.stdout]

\* stdout.strip() of a query that prints at most one line
stdout_strip(stdout) == IF stdout = <<>> THEN "" ELSE stdout[1]

\* int(text): the decimal numerals git prints here; anything else is a
\* ValueError
Numerals == ("3" :> 3) @@ ("8" :> 8) @@ ("1000000" :> 1000000)
int(text) ==
    IF text \in DOMAIN Numerals
    THEN [exc |-> "", value |-> Numerals[text]]
    ELSE [exc |-> "ValueError", value |-> 0]

\* line.startswith("-") and line[1:] on the lines rev-list --boundary prints
BoundaryLines == ("-a1" :> "a1") @@ ("-b2" :> "b2")
startswith_dash(line) == line \in DOMAIN BoundaryLines
without_prefix(line) == BoundaryLines[line]

\* the commits of the repository a query can name, and HEAD's own hash
Shas == {"a1", "b2"}
HeadSha == "h0"
BaseRefs == {None, Some(""), Some("main")}
Events == {EVENT_PULL_REQUEST, "push"}

\* the ways a query that prints one commit can end
ShaRuns ==
    {Run("exit 128", <<>>), Run("exit 0", <<>>)} \cup {Run("exit 0", <<sha>>) : sha \in Shas}
\* git merge-base prints a commit whenever it exits with 0
MergeBaseRuns == {Run("exit 128", <<>>)} \cup {Run("exit 0", <<sha>>) : sha \in Shas}
HeadRuns == {Run("exit 128", <<>>), Run("exit 0", <<HeadSha>>)}
BoundaryRuns ==
    {Run("timeout", <<>>), Run("exit 128", <<>>), Run("exit 0", <<"c3">>),
     Run("exit 0", <<"c3", "-a1">>), Run("exit 0", <<"-b2", "c3", "-a1">>)}
\* rev-list --count prints the distance of the commit, or fails, or prints
\* something that is no number
CountRuns(sha) ==
    {Run("exit 128", <<>>), Run("exit 0", <<"fatal">>),
     Run("exit 0", <<distance_to_head[sha]>>)}

Query(cmd, arg, run) == [cmd |-> cmd, arg |-> arg, run |-> run]
Issue(cmd, arg, run) == queries' = Append(queries, Query(cmd, arg, run))

\* the two references in the other order
target_refs_bare_first(base_ref) == <<base_ref, "origin/" \o base_ref>>

\* [f"origin/{base_ref}", base_ref]
target_refs(base_ref) == <<"origin/" \o base_ref, base_ref>>

\* a choice that takes the automation commit on a tie
_determine_pr_range_from_strict(base, bot) ==
    IF base # None /\ bot # None
    THEN IF base[1].distance_to_head < bot[1].distance_to_head
         THEN Some(base[1].sha) ELSE Some(bot[1].sha)
    ELSE IF base # None THEN Some(base[1].sha)
    ELSE IF bot # None THEN Some(bot[1].sha)
    ELSE None

\* a choice without the "elif last_bot" branch
_determine_pr_range_from_without_elif_bot(base, bot) ==
    IF base # None /\ bot # None
    THEN IF base[1].distance_to_head <= bot[1].distance_to_head
         THEN Some(base[1].sha) ELSE Some(bot[1].sha)
    ELSE IF base # None THEN Some(base[1].sha)
    ELSE None

\* the from_commit _determine_pr_range picks, None when it has to fall back
\* to the oldest available commit
_determine_pr_range_from(base, bot) ==
    IF base # None /\ bot # None
    THEN IF base[1].distance_to_head <= bot[1].distance_to_head
         THEN Some(base[1].sha) ELSE Some(bot[1].sha)
    ELSE IF base # None THEN Some(base[1].sha)
    ELSE IF bot # None THEN Some(bot[1].sha)
    ELSE None

\* a choice that takes the commit with more history
_determine_push_range_from_farthest(oldest, bot) ==
    IF bot # None
    THEN IF oldest[1].distance_to_head >= bot[1].distance_to_head
         THEN oldest[1].sha ELSE bot[1].sha
    ELSE oldest[1].sha

\* a choice that gives up when there is no automation commit
_determine_push_range_from_head(oldest, bot) ==
    IF bot # None
    THEN IF oldest[1].distance_to_head <= bot[1].distance_to_head
         THEN oldest[1].sha ELSE bot[1].sha
    ELSE "HEAD"

\* the from_commit _determine_push_range picks
_determine_push_range_from(oldest, bot) ==
    IF bot # None
    THEN IF oldest[1].distance_to_head <= bot[1].distance_to_head
         THEN oldest[1].sha ELSE bot[1].sha
    ELSE oldest[1].sha

\* a range that ends where it starts
range_to_from(from_commit) == DiffRange(from_commit, from_commit)

\* return DiffRange(from_commit=from_commit, to_commit="HEAD")
range_to_head(from_commit) == DiffRange(from_commit, "HEAD")

\* what "except ValueError" would catch
CaughtByExceptValueError == {"ValueError"}

\* the classes "except Exception" of determine_diff_commits catches
CaughtByExcept == {"CalledProcessError", "ValueError"}

InitResolver ==
    /\ original_content = Module(<<>>)
    /\ current_file = [state |-> "ok", content |-> Module(<<>>)]
    /\ outcome = NoOutcome
    /\ hist = NoEdits
    /\ locals = Unbound
    /\ github_config \in [event_name : Events, base_ref : BaseRefs]
    /\ distance_to_head \in [Shas -> DOMAIN Numerals]
    /\ pc = "determine_range"
    /\ stack = <<>>
    /\ pr_base = None /\ last_bot = None /\ oldest_available = None
    /\ ret = None
    /\ commit = ""
    /\ target_ref = 0
    /\ pattern = 0
    /\ queries = <<>>
    /\ diff_range = None
    /\ DiscoveryIdle
    /\ RunIdle

Environment ==
    <<validator_vars, discovery_vars, run_vars, github_config, distance_to_head>>
Locals == <<pr_base, last_bot, oldest_available>>

\* call a finder: continue at label when it returns
Call(finder, label) == pc' = finder /\ stack' = <<label>> \o stack
\* a finder returns value to its caller
ReturnValue(value) == ret' = value /\ pc' = Head(stack) /\ stack' = Tail(stack)
\* an exception leaves every frame up to the try of determine_diff_commits
Propagate == pc' = "except" /\ stack' = <<>> /\ UNCHANGED ret
\* a commit was found: count its distance, then return it
FoundCommit(sha) == pc' = "_count_commits_to_head" /\ commit' = sha /\ UNCHANGED <<stack, ret>>

\* the distance _count_commits_to_head returns for what the query gave
_count_commits_to_head(run) ==
    LET out == cmd_output(run, TRUE)
        count == int(stdout_strip(out.stdout))
    IN  IF out.exc = "CalledProcessError" \/ count.exc = "ValueError"
        THEN LARGE_COMMIT_COUNT_FALLBACK
        ELSE count.value

\* DiffRangeDeterminer.determine_range
DetermineRange ==
    /\ pc = "determine_range"
    /\ IF is_pull_request(github_config)
       THEN Call("find_pr_base_commit", "pr_got_base")
       ELSE Call("find_oldest_available_commit", "push_got_oldest")
    /\ UNCHANGED <<Environment, Locals, ret, commit, target_ref, pattern, queries,
                   diff_range>>

\* find_pr_base_commit up to the loop over target_refs
FindPrBaseCommit ==
    /\ pc = "find_pr_base_commit"
    /\ IF ~is_pull_request(github_config) \/ ~has_base_ref(github_config)
       THEN ReturnValue(None) /\ UNCHANGED target_ref
       ELSE pc' = "merge_base" /\ target_ref' = 1 /\ UNCHANGED <<stack, ret>>
    /\ UNCHANGED <<Environment, Locals, commit, pattern, queries, diff_range>>

\* one round of "for target_ref in target_refs"
MergeBase ==
    /\ pc = "merge_base"
    /\ \E run \in MergeBaseRuns :
          LET refs == target_refs(github_config.base_ref[1])
              out == cmd_output(run, TRUE)
          IN  /\ Issue("merge-base", refs[target_ref], run)
              /\ IF out.exc = ""
                 THEN FoundCommit(stdout_strip(out.stdout)) /\ UNCHANGED target_ref
                 ELSE /\ IF target_ref < Len(refs)
                         THEN target_ref' = target_ref + 1 /\ UNCHANGED pc
                         ELSE pc' = "_try_boundary_commit" /\ UNCHANGED target_ref
                      /\ UNCHANGED <<stack, ret, commit>>
    /\ UNCHANGED <<Environment, Locals, pattern, diff_range>>

\* _try_boundary_commit, and the call of find_oldest_available_commit that
\* follows when it returns None
TryBoundaryCommit ==
    /\ pc = "_try_boundary_commit"
    /\ \E run \in BoundaryRuns :
          LET out == cmd_output(run, FALSE)
              marked == {i \in DOMAIN out.stdout : startswith_dash(out.stdout[i])}
              first == CHOOSE i \in marked : \A j \in marked : i <= j
          IN  /\ Issue("rev-list --boundary",
                       "HEAD...origin/" \o github_config.base_ref[1] \o "^", run)
              /\ IF out.exc = "" /\ marked # {}
                 THEN FoundCommit(without_prefix(out.stdout[first]))
                 ELSE /\ Call("find_oldest_available_commit", "pr_base_last_resort")
                      /\ UNCHANGED <<ret, commit>>
    /\ UNCHANGED <<Environment, Locals, target_ref, pattern, diff_range>>

\* "if oldest: return oldest" of find_pr_base_commit
PrBaseLastResort ==
    /\ pc = "pr_base_last_resort"
    /\ ReturnValue(ret)
    /\ UNCHANGED <<Environment, Locals, commit, target_ref, pattern, queries, diff_range>>

\* find_oldest_available_commit: the root commit
RevListMaxParents ==
    /\ pc = "find_oldest_available_commit"
    /\ \E run \in ShaRuns :
          LET out == cmd_output(run, TRUE)
              first_commit == stdout_strip(out.stdout)
          IN  /\ Issue("rev-list --max-parents=0", "HEAD", run)
              /\ IF out.exc = "" /\ first_commit # ""
                 THEN FoundCommit(first_commit)
                 ELSE pc' = "rev_list_reverse" /\ UNCHANGED <<stack, ret, commit>>
    /\ UNCHANGED <<Environment, Locals, target_ref, pattern, diff_range>>

\* find_oldest_available_commit: the fallback for a shallow checkout
RevListReverse ==
    /\ pc = "rev_list_reverse"
    /\ \E run \in ShaRuns :
          LET out == cmd_output(run, TRUE)
              oldest_commit == stdout_strip(out.stdout)
          IN  /\ Issue("rev-list --max-count=1 --reverse", "HEAD", run)
              /\ IF out.exc = "" /\ oldest_commit # ""
                 THEN FoundCommit(oldest_commit)
                 ELSE pc' = "rev_parse_head" /\ UNCHANGED <<stack, ret, commit>>
    /\ UNCHANGED <<Environment, Locals, target_ref, pattern, diff_range>>

\* find_oldest_available_commit: the ultimate fallback, outside every try
RevParseHead ==
    /\ pc = "rev_parse_head"
    /\ \E run \in HeadRuns :
          LET out == cmd_output(run, TRUE)
          IN  /\ Issue("rev-parse", "HEAD", run)
              /\ IF out.exc = ""
                 THEN ReturnValue(Some(CommitInfo(stdout_strip(out.stdout), 0)))
                 ELSE Propagate
    /\ UNCHANGED <<Environment, Locals, commit, target_ref, pattern, diff_range>>

\* one round of "for i, pattern in enumerate(GITHUB_ACTIONS_BOT_PATTERNS)"
GitLogAuthor ==
    /\ pc = "find_last_bot_commit"
    /\ \E run \in ShaRuns :
          LET out == cmd_output(run, TRUE)
              commit_sha == stdout_strip(out.stdout)
          IN  /\ Issue("log --author", GITHUB_ACTIONS_BOT_PATTERNS[pattern], run)
              /\ IF out.exc = "" /\ commit_sha # ""
                 THEN FoundCommit(commit_sha) /\ UNCHANGED pattern
                 ELSE IF pattern < Len(GITHUB_ACTIONS_BOT_PATTERNS)
                 THEN pattern' = pattern + 1 /\ UNCHANGED <<pc, stack, ret, commit>>
                 ELSE ReturnValue(None) /\ UNCHANGED <<pattern, commit>>
    /\ UNCHANGED <<Environment, Locals, target_ref, diff_range>>

\* _count_commits_to_head(commit), and the return of the CommitInfo built
\* from it
CountCommitsToHead ==
    /\ pc = "_count_commits_to_head"
    /\ \E run \in CountRuns(commit) :
          /\ Issue("rev-list --count", commit \o "..HEAD", run)
          /\ ReturnValue(Some(CommitInfo(commit, _count_commits_to_head(run))))
    /\ commit' = ""
    /\ UNCHANGED <<Environment, Locals, target_ref, pattern, diff_range>>

\* _determine_pr_range: pr_base is bound, find_last_bot_commit is called
PrRangeGotBase ==
    /\ pc = "pr_got_base"
    /\ pr_base' = ret
    /\ Call("find_last_bot_commit", "pr_got_bot")
    /\ pattern' = 1
    /\ UNCHANGED <<Environment, last_bot, oldest_available, ret, commit, target_ref,
                   queries, diff_range>>

\* _determine_pr_range: last_bot is bound and from_commit chosen
PrRangeSelect ==
    /\ pc = "pr_got_bot"
    /\ last_bot' = ret
    /\ LET from_commit == _determine_pr_range_from(pr_base, ret)
       IN  IF from_commit # None
           THEN /\ diff_range' = Some(range_to_head(from_commit[1]))
                /\ pc' = "returned"
                /\ UNCHANGED stack
           ELSE /\ Call("find_oldest_available_commit", "pr_got_oldest")
                /\ UNCHANGED diff_range
    /\ UNCHANGED <<Environment, pr_base, oldest_available, ret, commit, target_ref,
                   pattern, queries>>

\* _determine_pr_range: the else branch, after the oldest commit came back
PrRangeGotOldest ==
    /\ pc = "pr_got_oldest"
    /\ diff_range' = Some(range_to_head(ret[1].sha))
    /\ pc' = "returned"
    /\ UNCHANGED <<Environment, Locals, stack, ret, commit, target_ref, pattern, queries>>

\* _determine_push_range: oldest_available is bound, find_last_bot_commit is
\* called
PushRangeGotOldest ==
    /\ pc = "push_got_oldest"
    /\ oldest_available' = ret
    /\ Call("find_last_bot_commit", "push_got_bot")
    /\ pattern' = 1
    /\ UNCHANGED <<Environment, pr_base, last_bot, ret, commit, target_ref, queries,
                   diff_range>>

\* _determine_push_range: last_bot is bound and from_commit chosen
PushRangeSelect ==
    /\ pc = "push_got_bot"
    /\ last_bot' = ret
    /\ diff_range' = Some(range_to_head(_determine_push_range_from(oldest_available, ret)))
    /\ pc' = "returned"
    /\ UNCHANGED <<Environment, pr_base, oldest_available, stack, ret, commit,
                   target_ref, pattern, queries>>

\* the except clause of determine_diff_commits
ExceptException ==
    /\ pc = "except"
    /\ IF "CalledProcessError" \in CaughtByExcept
       THEN diff_range' = Some(DiffRange("HEAD", "HEAD")) /\ pc' = "returned"
       ELSE pc' = "raised" /\ UNCHANGED diff_range
    /\ UNCHANGED <<Environment, Locals, stack, ret, commit, target_ref, pattern, queries>>

NextResolver ==
    \/ DetermineRange
    \/ FindPrBaseCommit \/ MergeBase \/ TryBoundaryCommit \/ PrBaseLastResort
    \/ RevListMaxParents \/ RevListReverse \/ RevParseHead
    \/ GitLogAuthor
    \/ CountCommitsToHead
    \/ PrRangeGotBase \/ PrRangeSelect \/ PrRangeGotOldest
    \/ PushRangeGotOldest \/ PushRangeSelect
    \/ ExceptException

SpecResolver == InitResolver /\ [][NextResolver]_vars

(***************************************************************************)
(* Vocabulary of the resolver properties.                                  *)
(***************************************************************************)
ResolverReturned == pc = "returned"
FromCommit == diff_range[1].from_commit
ToCommit == diff_range[1].to_commit
InPullRequest == is_pull_request(github_config)

\* the two candidates of the context, as the resolver holds them
FirstCandidate == IF InPullRequest THEN pr_base ELSE oldest_available
BotCandidate == last_bot
BothFound == ResolverReturned /\ FirstCandidate # None /\ BotCandidate # None

\* the count of the commit succeeded
KnownDistance(info) == info[1].distance_to_head # LARGE_COMMIT_COUNT_FALLBACK

\* the distance the repository has for a commit
TrueDistance(sha) == IF sha = HeadSha THEN 0 ELSE Numerals[distance_to_head[sha]]

Succeeded(q) ==
    /\ q.run.ended = "exit 0"
    /\ IF q.cmd = "rev-list --boundary"
       THEN \E i \in DOMAIN q.run.stdout : startswith_dash(q.run.stdout[i])
       ELSE q.run.stdout # <<>>
Failed(q) == q.run.ended # "exit 0"

\* the exception of a failed rev-parse HEAD reached determine_diff_commits
FellBack == \E i \in DOMAIN queries : queries[i].cmd = "rev-parse" /\ Failed(queries[i])

LogQueries == {i \in DOMAIN queries : queries[i].cmd = "log --author"}
BotInHistory == \E i \in LogQueries : Succeeded(queries[i])
OldestQueries ==
    {"rev-list --max-parents=0", "rev-list --max-count=1 --reverse", "rev-parse"}

\* the commit the last successful query among cmds printed
LastPrinted(cmds) ==
    LET hits == {i \in DOMAIN queries : queries[i].cmd \in cmds /\ Succeeded(queries[i])}
        last == CHOOSE i \in hits : \A j \in hits : j <= i
    IN  IF hits = {} THEN "" ELSE queries[last].run.stdout[1]

(***************************************************************************)
(* C13 .. C20: the range resolver.                                         *)
(***************************************************************************)
\* C13: in pull-request and in push context, when both candidates were found
\* and the distance of each was counted, from_commit is one of the two and
\* no candidate is nearer to HEAD than it
C13_SmallestWindow ==
    (BothFound /\ KnownDistance(FirstCandidate) /\ KnownDistance(BotCandidate)) =>
        /\ FromCommit \in {FirstCandidate[1].sha, BotCandidate[1].sha}
        /\ TrueDistance(FromCommit) <= TrueDistance(FirstCandidate[1].sha)
        /\ TrueDistance(FromCommit) <= TrueDistance(BotCandidate[1].sha)

\* the merge base is 3 commits behind HEAD, the automation commit 8
C13_Witness ==
    /\ BothFound /\ InPullRequest
    /\ \E i \in DOMAIN queries : queries[i].cmd = "merge-base" /\ Succeeded(queries[i])
    /\ pr_base[1].distance_to_head = 3
    /\ last_bot[1].distance_to_head = 8
    /\ FromCommit = pr_base[1].sha
    /\ FromCommit # last_bot[1].sha

\* C14: when both candidates have the same distance_to_head, from_commit is
\* pr_base in pull-request context and oldest_available in push context; the
\* automation commit is chosen only when its distance is strictly smaller
C14_TiesFavourFirst ==
    BothFound =>
        /\ FirstCandidate[1].distance_to_head = BotCandidate[1].distance_to_head
              => FromCommit = FirstCandidate[1].sha
        /\ (FromCommit = BotCandidate[1].sha /\ FromCommit # FirstCandidate[1].sha)
              => BotCandidate[1].distance_to_head < FirstCandidate[1].distance_to_head

\* two different commits at the same distance, in pull-request context
C14_Witness ==
    /\ BothFound /\ InPullRequest
    /\ pr_base[1].sha # last_bot[1].sha
    /\ KnownDistance(pr_base)
    /\ pr_base[1].distance_to_head = last_bot[1].distance_to_head
    /\ FromCommit = pr_base[1].sha

C16_PushWithoutBot ==
    (ResolverReturned /\ ~InPullRequest /\ ~FellBack /\ ~BotInHistory) =>
        /\ oldest_available # None
        /\ FromCommit = oldest_available[1].sha
        /\ FromCommit = LastPrinted(OldestQueries)

\* every author pattern was tried, none printed a commit, and the oldest
\* available commit has a counted distance
C16_Witness ==
    /\ ResolverReturned /\ ~InPullRequest /\ ~BotInHistory
    /\ Cardinality(LogQueries) = Len(GITHUB_ACTIONS_BOT_PATTERNS)
    /\ KnownDistance(oldest_available)
    /\ FromCommit = oldest_available[1].sha

\* C17: every range the resolver returns ends at the literal "HEAD"
C17_ToCommitIsHead ==
    /\ diff_range # None => ToCommit = "HEAD"
    /\ ResolverReturned => diff_range # None

\* a range that starts at a commit and ends at HEAD
C17_Witness ==
    /\ ResolverReturned
    /\ FromCommit \in Shas
    /\ ToCommit = "HEAD"

AllQueriesFailed == queries # <<>> /\ \A i \in DOMAIN queries : Failed(queries[i])

\* C18: determine_diff_commits never raises; whatever the queries answer it
\* goes on until it returns a range; when every query failed the range is
\* HEAD..HEAD
C18_NeverRaises ==
    /\ pc # "raised"
    /\ pc # "returned" => ENABLED NextResolver
    /\ ResolverReturned => diff_range # None
    /\ (ResolverReturned /\ AllQueriesFailed) => diff_range = Some(DiffRange("HEAD", "HEAD"))

\* every query of a pull-request resolution failed
C18_Witness ==
    /\ ResolverReturned /\ InPullRequest
    /\ AllQueriesFailed
    /\ Len(queries) = 6
    /\ diff_range = Some(DiffRange("HEAD", "HEAD"))

\* C19 as stated: a candidate whose count failed carries the sentinel
\* distance and loses against the other candidate whenever that one's
\* distance was counted
C19_AsStated ==
    BothFound =>
        /\ (~KnownDistance(FirstCandidate) /\ KnownDistance(BotCandidate))
              => FromCommit = BotCandidate[1].sha
        /\ (KnownDistance(FirstCandidate) /\ ~KnownDistance(BotCandidate))
              => FromCommit = FirstCandidate[1].sha

\* the queries of PR-base resolution: those issued before the search for an
\* automation commit starts, the counts left out
PrBaseAlternatives ==
    LET first_log == IF LogQueries = {} THEN Len(queries) + 1
                     ELSE CHOOSE i \in LogQueries : \A j \in LogQueries : i <= j
    IN  SelectSeq(SubSeq(queries, 1, first_log - 1),
                  LAMBDA q : q.cmd # "rev-list --count")

\* the order the alternatives are to be tried in
ExpectedAlternatives(base_ref) ==
    <<Query("merge-base", "origin/" \o base_ref, <<>>),
      Query("merge-base", base_ref, <<>>),
      Query("rev-list --boundary", "HEAD...origin/" \o base_ref \o "^", <<>>),
      Query("rev-list --max-parents=0", "HEAD", <<>>),
      Query("rev-list --max-count=1 --reverse", "HEAD", <<>>),
      Query("rev-parse", "HEAD", <<>>)>>

\* the commits a successful query names
Named(q) ==
    IF q.cmd = "rev-list --boundary"
    THEN {without_prefix(q.run.stdout[i]) :
             i \in {j \in DOMAIN q.run.stdout : startswith_dash(q.run.stdout[j])}}
    ELSE {q.run.stdout[1]}

\* C20: in pull-request context with a base branch, PR-base resolution asks
\* merge-base with origin/<branch>, merge-base with <branch>, the boundary
\* search and the oldest available commit in this order; an alternative is
\* asked only when every earlier one failed, and pr_base is a commit the
\* first successful alternative named
C20_PrBaseOrder ==
    (InPullRequest /\ has_base_ref(github_config)) =>
        LET alts == PrBaseAlternatives
            expected == ExpectedAlternatives(github_config.base_ref[1])
        IN  /\ Len(alts) <= Len(expected)
            /\ \A i \in DOMAIN alts :
                  alts[i].cmd = expected[i].cmd /\ alts[i].arg = expected[i].arg
            /\ \A i, j \in DOMAIN alts : i < j => ~Succeeded(alts[i])
            /\ pr_base # None =>
                  /\ Succeeded(alts[Len(alts)])
                  /\ pr_base[1].sha \in Named(alts[Len(alts)])

\* both merge-base queries failed, the boundary search named the commit and
\* the oldest available commit was never asked for
C20_Witness ==
    /\ ResolverReturned /\ InPullRequest /\ pr_base # None
    /\ Len(PrBaseAlternatives) = 3
    /\ PrBaseAlternatives[3].cmd = "rev-list --boundary"
    /\ \A i \in DOMAIN queries : queries[i].cmd \notin OldestQueries
    /\ FromCommit = pr_base[1].sha

(***************************************************************************)
(* C21, C22, C27: more on the resolver's queries.                          *)
(***************************************************************************)
\* the boundary commits a rev-list --boundary output reports
BoundaryCommits(stdout) ==
    {without_prefix(stdout[i]) : i \in {j \in DOMAIN stdout : startswith_dash(stdout[j])}}

\* PR-base resolution ended with the boundary search
BoundaryUsed ==
    /\ InPullRequest /\ pr_base # None
    /\ PrBaseAlternatives # <<>>
    /\ PrBaseAlternatives[Len(PrBaseAlternatives)].cmd = "rev-list --boundary"

\* C21 as stated: the PR base the boundary search returns is the oldest of
\* the boundary commits the query reported, that is, none of them is farther
\* from HEAD
C21_AsStated ==
    BoundaryUsed =>
        \A sha \in BoundaryCommits(PrBaseAlternatives[Len(PrBaseAlternatives)].run.stdout) :
            TrueDistance(sha) <= TrueDistance(pr_base[1].sha)

\* the queries for an automation commit, in the order they were issued
LogSequence == SelectSeq(queries, LAMBDA q : q.cmd = "log --author")

\* C22: the search for an automation commit asks the author patterns in
\* their fixed order; it goes on after a pattern that fails or prints
\* nothing, stops at the first pattern that prints a commit and returns that
\* commit; it reports no commit only after every pattern failed or printed
\* nothing
C22_FirstMatchWins ==
    LET fixed == <<"github-actions[bot]", "github-actions\\[bot\\]", "*github-actions*">>
        asked == LogSequence
    IN  /\ Len(asked) <= Len(fixed)
        /\ \A i \in DOMAIN asked : asked[i].arg = fixed[i]
        /\ \A i, j \in DOMAIN asked : i < j => ~Succeeded(asked[i])
        /\ last_bot # None =>
              /\ Succeeded(asked[Len(asked)])
              /\ last_bot[1].sha = asked[Len(asked)].run.stdout[1]
        /\ (ResolverReturned /\ asked # <<>> /\ last_bot = None) =>
              /\ Len(asked) = Len(fixed)
              /\ \A i \in DOMAIN asked : ~Succeeded(asked[i])

\* the first pattern failed, the second printed nothing, the third printed
\* the commit that is returned
C22_Witness ==
    /\ ResolverReturned /\ last_bot # None
    /\ Len(LogSequence) = 3
    /\ Failed(LogSequence[1])
    /\ LogSequence[2].run = Run("exit 0", <<>>)
    /\ last_bot[1].sha = LogSequence[3].run.stdout[1]

\* the value of check a query is issued with
CheckOf(q) == q.cmd # "rev-list --boundary"

\* C27 as stated: cmd_output raises CalledProcessError only when check is
\* true; with check false it returns what the process gave; nothing but
\* CalledProcessError leaves it
C27_AsStated ==
    \A i \in DOMAIN queries :
        LET out == cmd_output(queries[i].run, CheckOf(queries[i]))
        IN  /\ out.exc \in {"", "CalledProcessError"}
            /\ ~CheckOf(queries[i]) =>
                  out.exc = "" /\ out.stdout = queries[i].run.stdout

\* the oldest-available lookup ended at its last resort, rev-parse HEAD, and
\* the commit that printed is the start of the returned range
OldestIsHead ==
    /\ ResolverReturned
    /\ \E i \in DOMAIN queries :
          /\ queries[i].cmd = "rev-parse" /\ Succeeded(queries[i])
          /\ FromCommit = queries[i].run.stdout[1]

\* C25 as stated: when the oldest-available lookup falls back to HEAD itself
\* the returned range has no diff
C25_AsStated == OldestIsHead => ~has_diff(diff_range[1])

(***************************************************************************)
(* File discovery: get_changed_py_files and get_file_diff.  Both call      *)
(* determine_diff_commits first; the call is one step here and may return  *)
(* any range the resolver above returns.  get_pr_base_commit and           *)
(* get_last_bot_commit, called again by _should_return_all_python_files,   *)
(* are one step each as well: they return a commit's sha or None.          *)
(***************************************************************************)
PythonFiles == {"a.py", "b.py"}
\* line.endswith(PYTHON_FILE_EXTENSION) for the names git prints here
endswith_py == ("a.py" :> TRUE) @@ ("b.py" :> TRUE) @@ ("README.md" :> FALSE)

Repositories ==
    [tracked : {<<"a.py", "b.py">>, <<"b.py">>},
     on_disk : SUBSET PythonFiles,
     bot_in_history : BOOLEAN]

\* the ranges determine_diff_commits returns
ResolverRanges ==
    {range_to_head(sha) : sha \in Shas \cup {HeadSha}} \cup {DiffRange("HEAD", "HEAD")}

\* what get_pr_base_commit() can return: None without a base branch and when
\* the finder raised, else the sha the finder found
get_pr_base_commit(config) ==
    IF is_pull_request(config) /\ has_base_ref(config)
    THEN {None} \cup {Some(sha) : sha \in Shas \cup {HeadSha}}
    ELSE {None}

\* what get_last_bot_commit() can return: None when no pattern printed a
\* commit, else the sha printed
get_last_bot_commit(repo) ==
    IF repo.bot_in_history THEN {None} \cup {Some(sha) : sha \in Shas} ELSE {None}

LsFilesRuns(repo) ==
    {Run("exit 0", repo.tracked), Run("exit 128", <<>>), Run("timeout", <<>>)}
NameOnlyRuns ==
    {Run("exit 0", <<>>), Run("exit 0", <<"README.md", "a.py">>),
     Run("exit 0", <<"a.py", "b.py">>), Run("exit 128", <<>>)}
FileDiffRuns ==
    {Run("exit 0", <<>>), Run("exit 0", <<"@@ -1 +1 @@">>), Run("exit 128", <<>>),
     Run("timeout", <<>>)}

\* Path(line).exists()
exists(line) == line \in repository.on_disk

\* "if from_commit == to_commit" never true
no_diff_range_never(from_commit, to_commit) == FALSE

\* "if from_commit == to_commit"
no_diff_range(from_commit, to_commit) == from_commit = to_commit

\* all files whenever no automation commit was found
_should_return_all_python_files_without_bot(config, base, bot) == bot = None

_should_return_all_python_files(config, base, bot) ==
    IF is_pull_request(config)
    THEN base = None /\ bot = None
    ELSE bot = None

\* the loop of _get_all_python_files over the lines of ls-files
_get_all_python_files(stdout) == SelectSeq(stdout, exists)

\* the loop of _get_changed_python_files over the lines of diff --name-only
_get_changed_python_files(stdout) ==
    SelectSeq(stdout, LAMBDA line : endswith_py[line] /\ exists(line))

InitDiscovery ==
    /\ original_content = Module(<<>>)
    /\ current_file = [state |-> "ok", content |-> Module(<<>>)]
    /\ outcome = NoOutcome
    /\ hist = NoEdits
    /\ locals = Unbound
    /\ github_config \in [event_name : Events, base_ref : BaseRefs]
    /\ distance_to_head = <<>>
    /\ pc \in {"get_changed_py_files", "get_file_diff"}
    /\ stack = <<>>
    /\ pr_base = None /\ last_bot = None /\ oldest_available = None
    /\ ret = None
    /\ commit = ""
    /\ target_ref = 0
    /\ pattern = 0
    /\ queries = <<>>
    /\ diff_range = None
    /\ repository \in Repositories
    /\ history_check = None
    /\ changed_files = None
    /\ file_diff = None
    /\ RunIdle

DiscoveryFixed ==
    <<validator_vars, run_vars, github_config, distance_to_head, stack, pr_base, last_bot,
      oldest_available, ret, commit, target_ref, pattern, repository>>

\* get_changed_py_files up to the test of the range
ChangedFilesDetermine ==
    /\ pc = "get_changed_py_files"
    /\ \E range \in ResolverRanges :
          /\ diff_range' = Some(range)
          /\ IF no_diff_range(range.from_commit, range.to_commit)
             THEN pc' = "discovered" /\ changed_files' = Some(<<>>)
             ELSE pc' = "_should_return_all_python_files" /\ UNCHANGED changed_files
    /\ UNCHANGED <<DiscoveryFixed, queries, history_check, file_diff>>

ShouldReturnAllPythonFiles ==
    /\ pc = "_should_return_all_python_files"
    /\ \E base \in IF is_pull_request(github_config)
                    THEN get_pr_base_commit(github_config) ELSE {None},
          bot \in get_last_bot_commit(repository) :
          /\ history_check' = Some([pr_base |-> base, last_bot |-> bot])
          /\ pc' = IF _should_return_all_python_files(github_config, base, bot)
                   THEN "_get_all_python_files"
                   ELSE "_get_changed_python_files"
    /\ UNCHANGED <<DiscoveryFixed, queries, diff_range, changed_files, file_diff>>

\* _get_all_python_files; its CalledProcessError is caught in
\* get_changed_py_files
GetAllPythonFiles ==
    /\ pc = "_get_all_python_files"
    /\ \E run \in LsFilesRuns(repository) :
          LET out == cmd_output(run, TRUE)
          IN  /\ Issue("ls-files", "*.py", run)
              /\ changed_files' = IF out.exc # "" THEN Some(<<>>)
                                  ELSE Some(_get_all_python_files(out.stdout))
    /\ pc' = "discovered"
    /\ UNCHANGED <<DiscoveryFixed, diff_range, history_check, file_diff>>

GetChangedPythonFiles ==
    /\ pc = "_get_changed_python_files"
    /\ \E run \in NameOnlyRuns :
          LET out == cmd_output(run, TRUE)
          IN  /\ Issue("diff --name-only", diff_range[1].from_commit, run)
              /\ changed_files' = IF out.exc # "" THEN Some(<<>>)
                                  ELSE Some(_get_changed_python_files(out.stdout))
    /\ pc' = "discovered"
    /\ UNCHANGED <<DiscoveryFixed, diff_range, history_check, file_diff>>

\* get_file_diff up to the test of the range
FileDiffDetermine ==
    /\ pc = "get_file_diff"
    /\ \E range \in ResolverRanges :
          /\ diff_range' = Some(range)
          /\ IF no_diff_range(range.from_commit, range.to_commit)
             THEN pc' = "diffed" /\ file_diff' = Some(<<>>)
             ELSE pc' = "git_diff" /\ UNCHANGED file_diff
    /\ UNCHANGED <<DiscoveryFixed, queries, history_check, changed_files>>

\* the diff of one file; CalledProcessError gives the empty string
FileDiffQuery ==
    /\ pc = "git_diff"
    /\ \E run \in FileDiffRuns, file_path \in PythonFiles :
          LET out == cmd_output(run, TRUE)
          IN  /\ Issue("diff", file_path, run)
              /\ file_diff' = IF out.exc # "" THEN Some(<<>>) ELSE Some(out.stdout)
    /\ pc' = "diffed"
    /\ UNCHANGED <<DiscoveryFixed, diff_range, history_check, changed_files>>

NextDiscovery ==
    \/ ChangedFilesDetermine
    \/ ShouldReturnAllPythonFiles
    \/ GetAllPythonFiles
    \/ GetChangedPythonFiles
    \/ FileDiffDetermine
    \/ FileDiffQuery

SpecDiscovery == InitDiscovery /\ [][NextDiscovery]_vars

Discovered == pc = "discovered"
Diffed == pc = "diffed"
DiscoveryQueries ==
    {i \in DOMAIN queries : queries[i].cmd \in {"ls-files", "diff --name-only", "diff"}}

\* C23: when determine_diff_commits returns a range whose two ends are equal,
\* get_changed_py_files returns the empty list and get_file_diff the empty
\* string, and neither has issued a diff or ls-files query
C23_NoScan ==
    ((Discovered \/ Diffed) /\ FromCommit = ToCommit) =>
        /\ DiscoveryQueries = {}
        /\ Discovered => changed_files = Some(<<>>)
        /\ Diffed => file_diff = Some(<<>>)

\* an empty range in a repository with Python files on disk
C23_Witness ==
    /\ Discovered /\ FromCommit = ToCommit
    /\ repository.on_disk = PythonFiles
    /\ changed_files = Some(<<>>)

\* the tracked Python files that exist on disk
AllPythonFiles == SelectSeq(repository.tracked, exists)

LastQuery == queries[Len(queries)]

MaxRetries == 1

\* def f(a, b): """doc"""; return a + b
ProgFunctionDocumented ==
    Module(<<Def("FunctionDef", "f", <<"a", "b">>, "", <<>>,
                 <<StrExpr("doc"), Simple("Return", "a+b")>>)>>)
\* def f(a, b, c): return a + b
ProgFunctionWithParam ==
    Module(<<Def("FunctionDef", "f", <<"a", "b", "c">>, "", <<>>,
                 <<Simple("Return", "a+b")>>)>>)
\* what the assistant may turn a file into
Rewrites == {ProgFunctionDocumented, ProgFunctionWithParam, ProgBroken}

File(content) == [state |-> "ok", content |-> content]
Undecodable(content) == [state |-> "undecodable", content |-> content]

\* the lists get_changed_py_files may return
ChangedFileLists == {<<>>, <<"a.py">>, <<"a.py", "b.py">>}

DocstringUpdateResult(success, updated_content) ==
    [success |-> success, updated_content |-> updated_content]

\* the ways update_docstrings(file_path) can end: its result and the file it
\* leaves on disk.  It never raises.
update_docstrings(file) ==
    IF read_text(file).exc # ""
    THEN {[result |-> DocstringUpdateResult(FALSE, None), file |-> file]}
    ELSE {[result |-> DocstringUpdateResult(FALSE, None), file |-> file]}
         \cup {[result |-> DocstringUpdateResult(FALSE, None), file |-> File(text)] :
                  text \in Rewrites}
         \cup {[result |-> DocstringUpdateResult(TRUE, None), file |-> file]}
         \cup {[result |-> DocstringUpdateResult(TRUE, Some(text)), file |-> File(text)] :
                  text \in Rewrites \ {file.content}}

ProcessingResult(success, path, changes_made, validation, message, retry_count) ==
    [success |-> success, file_path |-> path, changes_made |-> changes_made,
     validation_result |-> validation, error_message |-> message,
     retry_count |-> retry_count]

\* how one _attempt_processing call ends: the result returned (or raised set),
\* the file left on disk and the kind of outcome
Attempt(result, file, kind) ==
    [result |-> result, file |-> file, kind |-> kind, raised |-> kind = "exception"]

\* the ways _attempt_processing(file_path, original_content, attempt) can end
\* after update_docstrings ended as upd, with write_text succeeding or not
_attempt_processing(file_path, original_content_, attempt_, upd, write_ok) ==
    IF ~upd.result.success
    THEN {Attempt(ProcessingResult(FALSE, file_path, FALSE, None,
                      "Docstring update failed", attempt_), upd.file, "update_failed")}
    ELSE IF upd.result.updated_content = None
    THEN {Attempt(ProcessingResult(TRUE, file_path, FALSE, None, "", attempt_),
                  upd.file, "no_changes")}
    ELSE IF ~write_ok
    THEN {Attempt(ProcessingResult(FALSE, file_path, FALSE, None,
                      "Failed to write updated content", attempt_), upd.file,
                  "write_failed")}
    ELSE {IF o.exc # ""
          THEN Attempt(ProcessingResult(FALSE, file_path, FALSE, None, o.exc, attempt_),
                       upd.file, "exception")
          ELSE IF ~o.result.passed
          THEN Attempt(ProcessingResult(FALSE, file_path, FALSE, Some(o.result),
                           "Validation failed", attempt_), upd.file, "validation_failed")
          ELSE Attempt(ProcessingResult(TRUE, file_path, TRUE, Some(o.result), "",
                           attempt_), upd.file, "validated") :
          o \in validate_changes(original_content_, upd.file)}

\* "if attempt <= self.max_retries"
retries_left_inclusive(attempt_, max_retries_) == attempt_ <= max_retries_

\* "if attempt < self.max_retries"
retries_left(attempt_, max_retries_) == attempt_ < max_retries_

\* every result is staged
should_stage_always(processing_result) == TRUE

\* "if processing_result.success and processing_result.changes_made"
should_stage(processing_result) ==
    processing_result.success /\ processing_result.changes_made

\* the entry "failed" of get_processing_statistics
failed_count(results_) ==
    Len(results_) - Cardinality({i \in DOMAIN results_ : results_[i].success})

\* the two codes exchanged
determine_exit_code_inverted(failed) == IF failed > 0 THEN 0 ELSE 1

determine_exit_code(failed) == IF failed > 0 THEN 1 ELSE 0

InitRun ==
    /\ original_content = Module(<<>>)
    /\ current_file = [state |-> "ok", content |-> Module(<<>>)]
    /\ outcome = NoOutcome
    /\ hist = NoEdits
    /\ locals = Unbound
    /\ github_config = [event_name |-> "", base_ref |-> None]
    /\ distance_to_head = <<>>
    /\ pc = "_main_impl"
    /\ stack = <<>>
    /\ pr_base = None /\ last_bot = None /\ oldest_available = None
    /\ ret = None
    /\ commit = ""
    /\ target_ref = 0
    /\ pattern = 0
    /\ queries = <<>>
    /\ diff_range = None
    /\ DiscoveryIdle
    /\ disk \in [PythonFiles -> {File(ProgFunction), Undecodable(ProgFunction)}]
    /\ initial_disk = disk
    /\ max_retries \in 0..MaxRetries
    /\ pre_commit_hook \in {"", "pre-commit run"}
    /\ file_index = 0 /\ attempt = 0
    /\ attempts_log = <<>>
    /\ results = <<>>
    /\ write_failed = FALSE
    /\ staged = {}
    /\ commit_created = None
    /\ exit_code = None

RunFixed ==
    <<current_file, outcome, hist, locals, github_config, distance_to_head, stack,
      pr_base, last_bot, oldest_available, ret, commit, target_ref, pattern,
      queries, diff_range, repository, history_check, file_diff, initial_disk,
      max_retries, pre_commit_hook>>

\* _main_impl returns code at the return statement named
ReturnCode(code, at) == pc' = at /\ exit_code' = Some(code)

\* validate_prerequisites
ValidatePrerequisites ==
    /\ pc = "_main_impl"
    /\ \E prerequisites_valid \in BOOLEAN :
          IF prerequisites_valid
          THEN pc' = "detect_changed_files" /\ UNCHANGED exit_code
          ELSE ReturnCode(1, "return prerequisites")
    /\ UNCHANGED <<RunFixed, original_content, changed_files, disk, file_index, attempt,
                   attempts_log, results, write_failed, staged, commit_created>>

\* changed_files = get_changed_py_files(); "if not changed_files: return 0"
DetectChangedFiles ==
    /\ pc = "detect_changed_files"
    /\ \E files \in ChangedFileLists :
          /\ changed_files' = Some(files)
          /\ IF files = <<>>
             THEN ReturnCode(0, "return no files") /\ UNCHANGED file_index
             ELSE pc' = "process_file" /\ file_index' = 1 /\ UNCHANGED exit_code
    /\ UNCHANGED <<RunFixed, original_content, disk, attempt, attempts_log, results,
                   write_failed, staged, commit_created>>

file_path == changed_files[1][file_index]

\* process_file returns result: process_multiple_files appends it and goes on
ProcessFileReturns(result) ==
    /\ results' = Append(results, result)
    /\ file_index' = file_index + 1
    /\ pc' = IF file_index < Len(changed_files[1]) THEN "process_file"
             ELSE "pre_commit_hook"

\* process_file up to the loop: read the original content
ReadOriginalContent ==
    /\ pc = "process_file"
    /\ LET rd == read_text(disk[file_path])
       IN  IF rd.exc # ""
           THEN /\ ProcessFileReturns(ProcessingResult(FALSE, file_path, FALSE, None,
                                                       "Failed to read file", 0))
                /\ UNCHANGED original_content
           ELSE /\ original_content' = rd.content
                /\ pc' = "_attempt_processing"
                /\ UNCHANGED <<results, file_index>>
    /\ attempt' = 0
    /\ attempts_log' = Append(attempts_log, <<>>)
    /\ UNCHANGED <<RunFixed, changed_files, disk, write_failed, staged, commit_created,
                   exit_code>>

\* one round of "for attempt in range(self.max_retries + 1)"
ProcessFileAttempt ==
    /\ pc = "_attempt_processing"
    /\ \E upd \in update_docstrings(disk[file_path]), write_ok, unexpected \in BOOLEAN :
       \E a \in IF unexpected
                THEN {Attempt(ProcessingResult(FALSE, file_path, FALSE, None,
                                  "Unexpected error", attempt), upd.file, "exception")}
                ELSE _attempt_processing(file_path, original_content, attempt, upd,
                                         write_ok) :
          /\ attempts_log' = [attempts_log EXCEPT ![file_index] = Append(@, a.kind)]
          /\ IF ~a.raised /\ a.result.success
             THEN /\ ProcessFileReturns(a.result)
                  /\ disk' = [disk EXCEPT ![file_path] = a.file]
                  /\ write_failed' = (write_failed \/ a.kind = "write_failed")
                  /\ UNCHANGED attempt
             ELSE IF retries_left(attempt, max_retries)
             THEN \E restore_ok \in BOOLEAN :
                     /\ disk' = [disk EXCEPT ![file_path] =
                                    IF restore_ok THEN File(original_content) ELSE a.file]
                     /\ write_failed' =
                            (write_failed \/ a.kind = "write_failed" \/ ~restore_ok)
                     /\ attempt' = attempt + 1
                     /\ UNCHANGED <<pc, results, file_index>>
             ELSE /\ ProcessFileReturns([a.result EXCEPT !.retry_count = attempt])
                  /\ disk' = [disk EXCEPT ![file_path] = a.file]
                  /\ write_failed' = (write_failed \/ a.kind = "write_failed")
                  /\ UNCHANGED attempt
    /\ UNCHANGED <<RunFixed, original_content, changed_files, staged, commit_created,
                   exit_code>>

\* "if pre_commit_hook: if not run_pre_commit_hook(...): return 1"
PreCommitHook ==
    /\ pc = "pre_commit_hook"
    /\ IF pre_commit_hook = ""
       THEN pc' = "stage" /\ UNCHANGED exit_code
       ELSE \E hook_ok \in BOOLEAN :
               IF hook_ok THEN pc' = "stage" /\ UNCHANGED exit_code
               ELSE ReturnCode(1, "return hook")
    /\ UNCHANGED <<RunFixed, original_content, changed_files, disk, file_index, attempt,
                   attempts_log, results, write_failed, staged, commit_created>>

\* the staging loop; stage_file (git add) succeeds for some of the results
StageSuccessfulChanges ==
    /\ pc = "stage"
    /\ \E added \in SUBSET {results[i].file_path :
                              i \in {j \in DOMAIN results : should_stage(results[j])}} :
          staged' = added
    /\ pc' = "commit"
    /\ UNCHANGED <<RunFixed, original_content, changed_files, disk, file_index, attempt,
                   attempts_log, results, write_failed, commit_created, exit_code>>

\* "if staged_any and has_staged_files()": create_commit; then the exit code
CreateCommitIfNeeded ==
    /\ pc = "commit"
    /\ \E has_staged_files \in BOOLEAN, created \in BOOLEAN :
          IF staged # {} /\ has_staged_files
          THEN /\ commit_created' = Some(created)
               /\ IF created
                  THEN ReturnCode(determine_exit_code(failed_count(results)),
                                  "return determine_exit_code")
                  ELSE ReturnCode(1, "return commit failed")
          ELSE /\ ReturnCode(determine_exit_code(failed_count(results)),
                             "return determine_exit_code")
               /\ UNCHANGED commit_created
    /\ UNCHANGED <<RunFixed, original_content, changed_files, disk, file_index, attempt,
                   attempts_log, results, write_failed, staged>>

NextRun ==
    \/ ValidatePrerequisites
    \/ DetectChangedFiles
    \/ ReadOriginalContent
    \/ ProcessFileAttempt
    \/ PreCommitHook
    \/ StageSuccessfulChanges
    \/ CreateCommitIfNeeded

SpecRun == InitRun /\ [][NextRun]_vars

(***************************************************************************)
(* C26, C28, C29, C30: properties of a run.                                *)
(***************************************************************************)
Exited == exit_code # None
AllProcessed == changed_files # None /\ Len(results) = Len(changed_files[1])
SuccessKinds == {"no_changes", "validated"}
\* the positions of results whose file got at least one attempt
Attempted == {i \in DOMAIN results : attempts_log[i] # <<>>}
LastAttempt(i) == attempts_log[i][Len(attempts_log[i])]

\* C26: process_file makes at most max_retries + 1 attempts and stops at the
\* first successful one; the retry_count of its result is the 0-based index
\* of the last attempt made, which is max_retries when every attempt failed,
\* whatever the kind of the failures
C26_BoundedAttempts ==
    /\ \A i \in DOMAIN attempts_log : Len(attempts_log[i]) <= max_retries + 1
    /\ \A i \in Attempted :
          /\ results[i].retry_count = Len(attempts_log[i]) - 1
          /\ \A k \in 1..(Len(attempts_log[i]) - 1) :
                attempts_log[i][k] \notin SuccessKinds
          /\ results[i].success <=> LastAttempt(i) \in SuccessKinds
          /\ ~results[i].success => Len(attempts_log[i]) = max_retries + 1

\* one file failed max_retries + 1 = 2 times, once by an exception and once
\* by the validation; another succeeded on its first retry after a failed
\* update
C26_Witness ==
    /\ max_retries = 1 /\ Len(results) = 2
    /\ attempts_log[1] = <<"exception", "validation_failed">>
    /\ ~results[1].success /\ results[1].retry_count = 1
    /\ attempts_log[2] = <<"update_failed", "validated">>
    /\ results[2].success /\ results[2].retry_count = 1

SomeFailed == \E i \in DOMAIN results : ~results[i].success
AllSucceeded == AllProcessed /\ ~SomeFailed

\* C28 as stated: the run returns 0 when no Python file changed or every
\* processed file succeeded, and 1 when some file failed
C28_AsStated ==
    (Exited /\ changed_files # None) =>
        /\ (changed_files[1] = <<>> \/ AllSucceeded) => exit_code = Some(0)
        /\ SomeFailed => exit_code = Some(1)

\* C28: once the prerequisites hold, the run returns 0 when no Python file
\* changed; 1 when at least one file failed, also when others were staged
\* and committed; and when every file succeeded it returns 0 unless the
\* pre-commit hook failed or create_commit failed, which give 1
C28_ExitCode ==
    (Exited /\ changed_files # None) =>
        /\ changed_files[1] = <<>> => exit_code = Some(0)
        /\ SomeFailed => exit_code = Some(1)
        /\ (changed_files[1] # <<>> /\ AllSucceeded) =>
              exit_code = IF pc = "return hook" \/ commit_created = Some(FALSE)
                          THEN Some(1) ELSE Some(0)

\* a.py was staged and committed, b.py failed: the run returns 1
C28_Witness ==
    /\ Exited /\ Len(results) = 2
    /\ results[1].success /\ "a.py" \in staged /\ commit_created = Some(TRUE)
    /\ ~results[2].success
    /\ exit_code = Some(1)

\* C29 as stated: when process_file returns a failure after its attempts and
\* no write failed, the file on disk is what it was when the run began
C29_AsStated ==
    \A i \in Attempted :
        (~results[i].success /\ ~write_failed) =>
            disk[results[i].file_path] = initial_disk[results[i].file_path]

ResultOf(f) == results[CHOOSE i \in DOMAIN results : results[i].file_path = f]
FailedValidation(r) == r.validation_result # None /\ ~r.validation_result[1].passed

\* C30: a staged file has a final result with success and changes_made, and
\* its content on disk validates against the content it had at the start; a
\* file whose last validation did not pass is not staged; create_commit is
\* called only after every file was processed and at least one was staged
C30_StagingSafety ==
    /\ \A f \in staged :
          /\ ResultOf(f).success /\ ResultOf(f).changes_made
          /\ ResultOf(f).validation_result # None
          /\ ResultOf(f).validation_result[1].passed
          /\ \E o \in validate_changes(initial_disk[f].content, disk[f]) :
                o.exc = "" /\ o.result.passed
    /\ \A i \in DOMAIN results :
          FailedValidation(results[i]) => results[i].file_path \notin staged
    /\ commit_created # None => AllProcessed /\ staged # {}

\* a.py was validated and staged, b.py was rejected as structure_changed and
\* not staged, and the commit was created
C30_Witness ==
    /\ staged = {"a.py"} /\ commit_created = Some(TRUE)
    /\ Len(results) = 2
    /\ FailedValidation(results[2])
    /\ results[2].validation_result[1].status = "structure_changed"
    /\ disk["a.py"] = File(ProgFunctionDocumented)

====
